---- MODULE Spec2Model ----
(***************************************************************************)
(* A model of libcst's ConvertTypeComments codemod                         *)
(* (libcst/codemod/commands/convert_type_comments.py) and of the node      *)
(* model the repository's tests exercise.                                  *)
(*                                                                         *)
(* Conventions of the encoding                                             *)
(*   - Optional[T] is a sequence of length 0 (None) or 1 (the value).      *)
(*   - Text is a sequence of tokens (strings); "" is the empty sequence.   *)
(*   - A node is a record whose field k names its class.                   *)
(*   - A Python list that may also be a leaf (UnpackedBindings,            *)
(*     UnpackedAnnotations) is a record [list |-> BOOLEAN, ...].           *)
(***************************************************************************)
EXTENDS Integers, Sequences, FiniteSets, TLC

VARIABLES
    hook,                               \* the hook or function that ran last
    args,                               \* the arguments it was called with
    result,                             \* what it returned or raised
    function_type_info_stack,           \* ConvertTypeComments.function_type_info_stack
    function_body_stack,                \* ConvertTypeComments.function_body_stack
    aggressively_strip_type_comments,   \* ConvertTypeComments.aggressively_strip_type_comments
    frames,                             \* the traversal's open FunctionDef visits
    pass                                \* 1, or 2 when the codemod runs on its own output

vars == <<hook, args, result, function_type_info_stack, function_body_stack,
          aggressively_strip_type_comments, frames, pass>>

codemod_state == <<function_type_info_stack, function_body_stack,
                   aggressively_strip_type_comments>>

-----------------------------------------------------------------------------
(* Bounds of the inputs.                                                   *)

\* most expression nodes (names and tuples) in the targets of one statement
MaxTargetNodes == 3
\* most `=` targets of one Assign
MaxTargets == 2
\* most nodes (names and tuples) of the type a type comment spells
MaxTypeNodes == 3

-----------------------------------------------------------------------------
(* Optional values and small helpers.                                      *)

None == <<>>
Some(v) == <<v>>
IsNone(o) == Len(o) = 0
Get(o) == o[1]

RECURSIVE Flatten(_)
\* the concatenation of a sequence of sequences
Flatten(ss) == IF Len(ss) = 0 THEN <<>> ELSE Head(ss) \o Flatten(Tail(ss))

Max2(a, b) == IF a >= b THEN a ELSE b

-----------------------------------------------------------------------------
(* Shapes: the bounded trees the inputs are drawn from.  A shape is a leaf *)
(* or a tuple of shapes; its leaves are numbered left to right, and the    *)
(* number picks the leaf's name, so that all leaves of an input differ.    *)

LeafShape == [leaf |-> TRUE, kids |-> <<>>]
TupleShape(f) == [leaf |-> FALSE, kids |-> f]

RECURSIVE ShapesOfSize(_)
RECURSIVE ForestsOf(_, _)
\* the shapes with exactly n nodes
ShapesOfSize(n) ==
    IF n = 1 THEN {LeafShape, TupleShape(<<>>)}
    ELSE {TupleShape(f) : f \in UNION {ForestsOf(n - 1, k) : k \in 1..(n - 1)}}
\* the sequences of k shapes with n nodes in all
ForestsOf(n, k) ==
    IF k = 0 THEN (IF n = 0 THEN {<<>>} ELSE {})
    ELSE UNION {{<<s>> \o f : s \in ShapesOfSize(m), f \in ForestsOf(n - m, k - 1)}
                : m \in 1..(n - k + 1)}

ShapesUpTo(n) == UNION {ShapesOfSize(m) : m \in 1..n}
ForestsUpTo(n, kmax) == UNION {ForestsOf(m, k) : m \in 1..n, k \in 1..kmax}

RECURSIVE LeafCount(_)
RECURSIVE LeafCountAll(_)
LeafCount(s) == IF s.leaf THEN 1 ELSE LeafCountAll(s.kids)
LeafCountAll(f) == IF Len(f) = 0 THEN 0 ELSE LeafCount(Head(f)) + LeafCountAll(Tail(f))

BindingNames == <<"a", "b", "c", "d", "e", "f", "g", "h">>
TypeNames == <<"int", "T", "str", "U", "bool", "V", "float", "W">>

-----------------------------------------------------------------------------
(* libcst expression nodes that can be binding targets.                    *)

Name(v) == [k |-> "Name", value |-> v]
Element(e) == [k |-> "Element", value |-> e]
Tuple(es) == [k |-> "Tuple", elements |-> es]

RECURSIVE TargetOf(_, _)
RECURSIVE ElementsOf(_, _)
\* the target expression of shape s, its leaves named from leaf number n + 1 on
TargetOf(s, n) ==
    IF s.leaf THEN Name(<<BindingNames[n + 1]>>) ELSE Tuple(ElementsOf(s.kids, n))
ElementsOf(f, n) ==
    IF Len(f) = 0 THEN <<>>
    ELSE <<Element(TargetOf(Head(f), n))>> \o ElementsOf(Tail(f), n + LeafCount(Head(f)))

RECURSIVE TargetsOfForest(_, _)
\* one target expression per shape of the forest, leaves numbered across all of them
TargetsOfForest(f, n) ==
    IF Len(f) = 0 THEN <<>>
    ELSE <<TargetOf(Head(f), n)>> \o TargetsOfForest(Tail(f), n + LeafCount(Head(f)))

\* the single target expressions and the target lists of the inputs
TargetExprs == {TargetOf(s, 0) : s \in ShapesUpTo(MaxTargetNodes)}
TargetLists == {TargetsOfForest(f, 0) : f \in ForestsUpTo(MaxTargetNodes, MaxTargets)}

-----------------------------------------------------------------------------
(* The text of type comments.  The payload of `# type: <payload>` is a     *)
(* sequence of the tokens NAME , ( ) and is decoded by ast.parse in eval    *)
(* mode; the inputs are the spellings of the bounded type shapes and        *)
(* damaged variants of them.                                                *)

RECURSIVE TypeText(_, _)
RECURSIVE TypeTextJoin(_, _)
\* the spelling of a type shape, every tuple in parentheses: T  ()  (T,)  (T,U)
TypeText(s, n) ==
    IF s.leaf THEN <<TypeNames[n + 1]>>
    ELSE <<"(">> \o TypeTextJoin(s.kids, n)
         \o (IF Len(s.kids) = 1 THEN <<",">> ELSE <<>>) \o <<")">>
\* the spellings of the shapes of f, separated by commas
TypeTextJoin(f, n) ==
    IF Len(f) = 0 THEN <<>>
    ELSE TypeText(Head(f), n)
         \o (IF Len(f) = 1 THEN <<>>
             ELSE <<",">> \o TypeTextJoin(Tail(f), n + LeafCount(Head(f))))

\* the spelling without the outer parentheses, as in `# type: int, str`
BareTypeText(s, n) ==
    IF s.leaf \/ Len(s.kids) = 0 THEN TypeText(s, n)
    ELSE SubSeq(TypeText(s, n), 2, Len(TypeText(s, n)) - 1)

\* the payloads of the type comments of the inputs: well-formed spellings, and
\* spellings that lost their last token or gained an unmatched parenthesis
TypePayloads ==
    UNION {{TypeText(s, n),
            BareTypeText(s, n),
            <<"(">> \o TypeText(s, n) \o <<")">>,
            <<"(">> \o TypeText(s, n),
            SubSeq(TypeText(s, n), 1, Len(TypeText(s, n)) - 1)}
           : s \in ShapesUpTo(MaxTypeNodes), n \in {0, 1}}

-----------------------------------------------------------------------------
(* Python's ast: the expressions a type comment decodes to, the parser of  *)
(* ast.parse(text, mode="eval") on the tokens above, and ast.unparse.      *)

AstName(id) == [k |-> "Name", id |-> id]
AstTuple(es) == [k |-> "Tuple", elts |-> es]
\* ast.Constant(value=Ellipsis)
AstEllipsis == [k |-> "Constant", value |-> "Ellipsis"]

ReturnNames == {"R", "object"}
IsTypeName(tok) == (\E i \in 1..Len(TypeNames) : TypeNames[i] = tok) \/ tok \in ReturnNames

ParseFail == [ok |-> FALSE, node |-> AstTuple(<<>>), next |-> 0]
ParseOk(node, next) == [ok |-> TRUE, node |-> node, next |-> next]

RECURSIVE ParseAtom(_, _)
RECURSIVE ParseExprList(_, _)
RECURSIVE ParseMore(_, _, _, _)
\* atom: NAME | '...' | '(' ')' | '(' expression-list ')'
ParseAtom(toks, i) ==
    IF i > Len(toks) THEN ParseFail
    ELSE IF IsTypeName(toks[i]) THEN ParseOk(AstName(toks[i]), i + 1)
    ELSE IF toks[i] = "..." THEN ParseOk(AstEllipsis, i + 1)
    ELSE IF toks[i] = "(" THEN
        IF i + 1 <= Len(toks) /\ toks[i + 1] = ")" THEN ParseOk(AstTuple(<<>>), i + 2)
        ELSE LET r == ParseExprList(toks, i + 1) IN
             IF r.ok /\ r.next <= Len(toks) /\ toks[r.next] = ")"
             THEN ParseOk(r.node, r.next + 1)
             ELSE ParseFail
    ELSE ParseFail
\* expression-list: atom (',' atom)* [','] ; a tuple as soon as it holds a comma
ParseExprList(toks, i) ==
    LET r == ParseAtom(toks, i) IN
    IF r.ok THEN ParseMore(toks, r.next, <<r.node>>, FALSE) ELSE ParseFail
ParseMore(toks, i, acc, comma) ==
    IF i <= Len(toks) /\ toks[i] = "," THEN
        IF i + 1 <= Len(toks) /\ (IsTypeName(toks[i + 1]) \/ toks[i + 1] \in {"(", "..."}) THEN
            LET r == ParseAtom(toks, i + 1) IN
            IF r.ok THEN ParseMore(toks, r.next, Append(acc, r.node), TRUE) ELSE ParseFail
        ELSE ParseOk(AstTuple(acc), i + 1)
    ELSE ParseOk(IF comma THEN AstTuple(acc) ELSE acc[1], i)

\* ast.parse(text, "<type_comment>", "eval").body, or a SyntaxError (ok = FALSE)
AstParseEval(toks) ==
    LET r == ParseExprList(toks, 1) IN
    IF r.ok /\ r.next = Len(toks) + 1 THEN r ELSE ParseFail

RECURSIVE AstUnparse(_)
RECURSIVE AstUnparseJoin(_)
\* ast.unparse: names as they are, tuples as (a, b), (a,) and ()
AstUnparse(e) ==
    IF e.k = "Name" THEN <<e.id>>
    ELSE IF e.k = "Constant" THEN <<"...">>
    ELSE <<"(">> \o AstUnparseJoin(e.elts)
         \o (IF Len(e.elts) = 1 THEN <<",">> ELSE <<>>) \o <<")">>
AstUnparseJoin(es) ==
    IF Len(es) = 0 THEN <<>>
    ELSE AstUnparse(Head(es))
         \o (IF Len(es) = 1 THEN <<>> ELSE <<",", " ">> \o AstUnparseJoin(Tail(es)))
-----------------------------------------------------------------------------
(* Exceptions and the three kinds of value a leave_ hook hands back.       *)

Return(n) == [kind |-> "node", nodes |-> <<n>>, exc |-> "none"]
FlattenSentinel(ns) == [kind |-> "flatten", nodes |-> ns, exc |-> "none"]
Raise(e) == [kind |-> "raise", nodes |-> <<>>, exc |-> e]

-----------------------------------------------------------------------------
(* AnnotationSpreader.                                                     *)

ListOf(items) == [list |-> TRUE, items |-> items]
LeafOf(v) == [list |-> FALSE, leaf |-> v]

RECURSIVE unpack_annotation(_)
unpack_annotation(expression) ==
    IF expression.k = "Tuple"
    THEN ListOf([i \in 1..Len(expression.elts) |-> unpack_annotation(expression.elts[i])])
    ELSE LeafOf(AstUnparse(expression))

\* unpack_target without the recursion into tuples: every target is a leaf
unpack_target_flat(target) == LeafOf(target)

RECURSIVE unpack_target(_)
unpack_target(target) ==
    IF target.k = "Tuple"
    THEN ListOf([i \in 1..Len(target.elements) |-> unpack_target(target.elements[i].value)])
    ELSE LeafOf(target)

\* the outcome of annotated_bindings: the pairs, or _ArityError raised
Pairs(out) == [err |-> FALSE, out |-> out]
ArityError == [err |-> TRUE, out |-> <<>>]
TargetAnnotationPair(b, a) == [binding |-> b, raw_annotation |-> a]

RECURSIVE annotated_bindings(_, _)
RECURSIVE annotated_bindings_zip(_, _)
\* annotated_bindings without the comparison of the lengths: zip() stops at the
\* end of the shorter list
annotated_bindings_unchecked(bindings, annotations) ==
    IF annotations.list THEN
        IF bindings.list
        THEN LET n == IF Len(bindings.items) <= Len(annotations.items)
                      THEN Len(bindings.items) ELSE Len(annotations.items)
             IN annotated_bindings_zip(SubSeq(bindings.items, 1, n),
                                       SubSeq(annotations.items, 1, n))
        ELSE ArityError
    ELSE IF bindings.list THEN ArityError
    ELSE Pairs(<<TargetAnnotationPair(bindings.leaf, annotations.leaf)>>)

annotated_bindings(bindings, annotations) ==
    IF annotations.list THEN
        IF bindings.list /\ Len(bindings.items) = Len(annotations.items)
        THEN annotated_bindings_zip(bindings.items, annotations.items)
        ELSE ArityError
    ELSE IF bindings.list THEN ArityError
    ELSE Pairs(<<TargetAnnotationPair(bindings.leaf, annotations.leaf)>>)
\* the loop `for binding, annotation in zip(...): out.extend(...)`
annotated_bindings_zip(bs, as) ==
    IF Len(bs) = 0 THEN Pairs(<<>>)
    ELSE LET first == annotated_bindings(Head(bs), Head(as)) IN
         IF first.err THEN ArityError
         ELSE LET rest == annotated_bindings_zip(Tail(bs), Tail(as)) IN
              IF rest.err THEN ArityError ELSE Pairs(first.out \o rest.out)

-----------------------------------------------------------------------------
(* Comments and formatting nodes.  A comment is its text as tokens,        *)
(* <<"#", "type:", payload...>> for `# type: payload`; None is no comment. *)

TypeComment(payload) == <<"#", "type:">> \o payload
PlainComment == <<"#", "note">>
IgnoreComment == <<"#", "type:", "ignore">>

TrailingWhitespace(ws, comment) ==
    [k |-> "TrailingWhitespace", whitespace |-> ws, comment |-> comment]
\* cst.TrailingWhitespace(): no whitespace, no comment
DefaultTrailingWhitespace == TrailingWhitespace(<<>>, None)
EmptyLine(comment) == [k |-> "EmptyLine", comment |-> comment]

\* What Python's tokenizer takes for a type comment when type_comments=True:
\* `# type:` followed by anything but `ignore`; `ignore` followed by a
\* bracket or a space is still `ignore`.
TokenizerTypeComment(comment) ==
    /\ Len(comment) >= 2
    /\ comment[1] = "#"
    /\ comment[2] = "type:"
    /\ ~(Len(comment) >= 3 /\ comment[3] = "ignore")
TypeCommentPayload(comment) == SubSeq(comment, 3, Len(comment))

-----------------------------------------------------------------------------
(* Statement nodes.                                                        *)

DEFAULT == "MaybeSentinel.DEFAULT"
Semicolon == "Semicolon"

Integer(v) == [k |-> "Integer", value |-> v]
AssignTarget(t) == [k |-> "AssignTarget", target |-> t]
Assign(targets, value, semicolon) ==
    [k |-> "Assign", targets |-> targets, value |-> value, semicolon |-> semicolon]
Annotation(a) == [k |-> "Annotation", annotation |-> a]
SimpleString(v) == [k |-> "SimpleString", value |-> v]
AnnAssign(target, annotation, value, semicolon) ==
    [k |-> "AnnAssign", target |-> target, annotation |-> annotation,
     value |-> value, semicolon |-> semicolon]
Expr(semicolon) == [k |-> "Expr", semicolon |-> semicolon]
AugAssign(semicolon) == [k |-> "AugAssign", semicolon |-> semicolon]

SimpleStatementLine(leading_lines, body, trailing_whitespace) ==
    [k |-> "SimpleStatementLine", leading_lines |-> leading_lines, body |-> body,
     trailing_whitespace |-> trailing_whitespace]
\* cst.SimpleStatementLine(body=[statement])
NewSimpleStatementLine(body) == SimpleStatementLine(<<>>, body, DefaultTrailingWhitespace)

IndentedBlock(header, body) == [k |-> "IndentedBlock", header |-> header, body |-> body]
SimpleStatementSuite(body, trailing_whitespace) ==
    [k |-> "SimpleStatementSuite", body |-> body, trailing_whitespace |-> trailing_whitespace]
For(leading_lines, target, body) ==
    [k |-> "For", leading_lines |-> leading_lines, target |-> target,
     iter |-> Name(<<"it">>), body |-> body]
Param(name, annotation, star, whitespace_after) ==
    [k |-> "Param", name |-> name, annotation |-> annotation, star |-> star,
     whitespace_after |-> whitespace_after]
Parameters(posonly_params, params, star_arg, kwonly_params, star_kwarg) ==
    [k |-> "Parameters", posonly_params |-> posonly_params, params |-> params,
     star_arg |-> star_arg, kwonly_params |-> kwonly_params, star_kwarg |-> star_kwarg]
FunctionDef(leading_lines, params, returns, body) ==
    [k |-> "FunctionDef", leading_lines |-> leading_lines, name |-> Name(<<"fn">>),
     params |-> params, returns |-> returns, body |-> body]
AsName(name) == [k |-> "AsName", name |-> name]
WithItem(asname) == [k |-> "WithItem", item |-> Name(<<"cm">>), asname |-> asname]
With(leading_lines, items, body) ==
    [k |-> "With", leading_lines |-> leading_lines, items |-> items, body |-> body]

-----------------------------------------------------------------------------
(* _ast_for_statement: ast.parse(code, type_comments=True).body[-1] of the *)
(* node's code.  Python accepts a type comment only at the end of an       *)
(* assignment that closes its line without a semicolon, and after the      *)
(* colon of a for / with header; anywhere else it is a SyntaxError, and    *)
(* the code is parsed again with type_comments=False.                      *)

LastOf(seq) == seq[Len(seq)]

IllegalInLeadingLines(leading_lines) ==
    \E i \in 1..Len(leading_lines) : TokenizerTypeComment(leading_lines[i].comment)

\* a line or a one-line suite: body statements and the comment that ends it
IllegalAtLineEnd(body, trailing_whitespace) ==
    /\ TokenizerTypeComment(trailing_whitespace.comment)
    /\ ~(LastOf(body).k = "Assign" /\ LastOf(body).semicolon = DEFAULT)

IllegalInSuite(body) ==
    IF body.k = "IndentedBlock"
    THEN \E i \in 1..Len(body.body) :
            \/ IllegalInLeadingLines(body.body[i].leading_lines)
            \/ IllegalAtLineEnd(body.body[i].body, body.body[i].trailing_whitespace)
    ELSE IllegalAtLineEnd(body.body, body.trailing_whitespace)

\* the parameters of a FunctionDef in the order of ast's argument lists
AllParams(parameters) ==
    parameters.posonly_params \o parameters.params \o parameters.star_arg
    \o parameters.kwonly_params \o parameters.star_kwarg

\* the type comments in the leading lines of a statement, in order
RECURSIVE TypeCommentsOf(_)
TypeCommentsOf(leading_lines) ==
    IF Len(leading_lines) = 0 THEN <<>>
    ELSE (IF TokenizerTypeComment(Head(leading_lines).comment)
          THEN <<Head(leading_lines).comment>> ELSE <<>>)
         \o TypeCommentsOf(Tail(leading_lines))

\* the comments Python may take for the type comment of a def: the one after the
\* colon and those on the lines between the colon and the first statement
FunctionTypeComments(node) ==
    IF node.body.k # "IndentedBlock" THEN <<>>
    ELSE (IF TokenizerTypeComment(node.body.header.comment)
          THEN <<node.body.header.comment>> ELSE <<>>)
         \o TypeCommentsOf(node.body.body[1].leading_lines)

RECURSIVE IllegalInFunctionBody(_)
IllegalInFunctionBody(body) ==
    IF body.k = "IndentedBlock"
    THEN \E i \in 1..Len(body.body) :
            \/ i > 1 /\ IllegalInLeadingLines(body.body[i].leading_lines)
            \/ IF body.body[i].k = "FunctionDef"
               THEN \/ IllegalInFunctionBody(body.body[i].body)
                    \/ Len(FunctionTypeComments(body.body[i])) > 1
               ELSE IllegalAtLineEnd(body.body[i].body, body.body[i].trailing_whitespace)
    ELSE IllegalAtLineEnd(body.body, body.trailing_whitespace)

\* whether ast.parse(code, type_comments=True) raises SyntaxError
HasIllegalTypeComment(node) ==
    \/ IllegalInLeadingLines(node.leading_lines)
    \/ IF node.k = "SimpleStatementLine"
       THEN IllegalAtLineEnd(node.body, node.trailing_whitespace)
       ELSE IF node.k = "FunctionDef"
       THEN \/ IllegalInFunctionBody(node.body)
            \/ Len(FunctionTypeComments(node)) > 1
       ELSE IllegalInSuite(node.body)

\* the comment ast attaches to the statement as its type_comment
AttachedComment(node) ==
    IF node.k = "SimpleStatementLine" THEN node.trailing_whitespace.comment
    ELSE IF node.k = "FunctionDef"
    THEN (IF Len(FunctionTypeComments(node)) = 1 THEN FunctionTypeComments(node)[1] ELSE None)
    ELSE IF node.body.k = "IndentedBlock" THEN node.body.header.comment
    ELSE None

\* ast.arg of each parameter: its name and the type comment that follows it
AstArgs(node, with_type_comments) ==
    IF node.k # "FunctionDef" THEN <<>>
    ELSE [i \in 1..Len(AllParams(node.params)) |->
            [arg |-> AllParams(node.params)[i].name.value,
             type_comment |->
                IF with_type_comments
                   /\ TokenizerTypeComment(AllParams(node.params)[i].whitespace_after.comment)
                THEN Some(TypeCommentPayload(AllParams(node.params)[i].whitespace_after.comment))
                ELSE None]]

_ast_for_statement(node) ==
    IF HasIllegalTypeComment(node)
    THEN [type_comment |-> None, args |-> AstArgs(node, FALSE)]
    ELSE [type_comment |->
             IF TokenizerTypeComment(AttachedComment(node))
             THEN Some(TypeCommentPayload(AttachedComment(node)))
             ELSE None,
          args |-> AstArgs(node, TRUE)]

\* _parse_type_comment that takes the parser's result without regard to its
\* failure
_parse_type_comment_unguarded(type_comment) ==
    IF IsNone(type_comment) THEN None
    ELSE Some(AstParseEval(Get(type_comment)).node)

_parse_type_comment(type_comment) ==
    IF IsNone(type_comment) THEN None
    ELSE IF AstParseEval(Get(type_comment)).ok
         THEN Some(AstParseEval(Get(type_comment)).node)
         ELSE None

_annotation_for_statement(node) == _parse_type_comment(_ast_for_statement(node).type_comment)

-----------------------------------------------------------------------------
(* Annotations.                                                            *)

\* the names of dir(builtins) among the type names of the model
_builtins == {"int", "str", "bool", "float", "object"}
\* _is_builtin that looks at the first name of the text only
_is_builtin_by_first_name(annotation) ==
    Len(annotation) >= 1 /\ annotation[1] \in _builtins

_is_builtin(annotation) == \E b \in _builtins : annotation = <<b>>

_convert_annotation(raw) ==
    IF _is_builtin(raw) THEN Annotation(Name(raw))
    ELSE Annotation(SimpleString(<<"\"">> \o raw \o <<"\"">>))

type_declaration(binding, raw_annotation) ==
    AnnAssign(binding, _convert_annotation(raw_annotation), None, DEFAULT)

\* AnnotationSpreader.type_declaration_statements; err when _ArityError is raised
type_declaration_statements(bindings, annotations, leading_lines) ==
    LET pairs == annotated_bindings(bindings, annotations) IN
    IF pairs.err THEN ArityError
    ELSE Pairs([i \in 1..Len(pairs.out) |->
                  SimpleStatementLine(
                      IF i = 1 THEN leading_lines ELSE <<>>,
                      <<type_declaration(pairs.out[i].binding, pairs.out[i].raw_annotation)>>,
                      DefaultTrailingWhitespace)])

-----------------------------------------------------------------------------
(* convert_Assign.                                                         *)

_FailedToApplyAnnotation == [kind |-> "_FailedToApplyAnnotation", items |-> <<>>]
ConvertedAnnAssign(n) == [kind |-> "AnnAssign", items |-> <<n>>]
ConvertedList(ns) == [kind |-> "list", items |-> ns]

\* convert_Assign whose one-target case builds the AnnAssign as a declaration,
\* without the value
convert_Assign_without_value(node, annotation) ==
    LET annotations == unpack_annotation(annotation)
        annotated_targets ==
            [i \in 1..Len(node.targets) |->
                annotated_bindings(unpack_target(node.targets[i].target), annotations)]
    IN
    IF \E i \in 1..Len(node.targets) : annotated_targets[i].err
    THEN _FailedToApplyAnnotation
    ELSE IF Len(annotated_targets) = 1 /\ Len(annotated_targets[1].out) = 1
    THEN ConvertedAnnAssign(
            type_declaration(annotated_targets[1].out[1].binding,
                             annotated_targets[1].out[1].raw_annotation))
    ELSE LET type_declarations ==
                 Flatten([i \in 1..Len(annotated_targets) |->
                     [j \in 1..Len(annotated_targets[i].out) |->
                         type_declaration(annotated_targets[i].out[j].binding,
                                          annotated_targets[i].out[j].raw_annotation)]])
         IN ConvertedList(type_declarations \o <<node>>)

convert_Assign(node, annotation) ==
    LET annotations == unpack_annotation(annotation)
        annotated_targets ==
            [i \in 1..Len(node.targets) |->
                annotated_bindings(unpack_target(node.targets[i].target), annotations)]
    IN
    IF \E i \in 1..Len(node.targets) : annotated_targets[i].err
    THEN _FailedToApplyAnnotation
    ELSE IF Len(annotated_targets) = 1 /\ Len(annotated_targets[1].out) = 1
    THEN ConvertedAnnAssign(
            AnnAssign(annotated_targets[1].out[1].binding,
                      _convert_annotation(annotated_targets[1].out[1].raw_annotation),
                      Some(node.value),
                      node.semicolon))
    ELSE LET type_declarations ==
                 Flatten([i \in 1..Len(annotated_targets) |->
                     [j \in 1..Len(annotated_targets[i].out) |->
                         type_declaration(annotated_targets[i].out[j].binding,
                                          annotated_targets[i].out[j].raw_annotation)]])
         IN ConvertedList(type_declarations \o <<node>>)

-----------------------------------------------------------------------------
(* ConvertTypeComments: the hooks on formatting nodes.                     *)

\* suffix[0] == "ignore": the text after `type:` is split at whitespace, so the
\* first word is `ignore` when the token is followed by a space or by nothing
_is_type_comment(comment) ==
    IF IsNone(comment) THEN FALSE
    ELSE IF ~(Len(comment) >= 2 /\ comment[2] = "type:") THEN FALSE
    ELSE IF /\ Len(comment) >= 3
            /\ comment[3] = "ignore"
            /\ (Len(comment) = 3 \/ comment[4] = " ")
    THEN FALSE
    ELSE TRUE

\* _strip_TrailingWhitespace that leaves the comment where it is
_strip_TrailingWhitespace_keeps_comment(node) == [node EXCEPT !.whitespace = <<>>]

_strip_TrailingWhitespace(node) == [node EXCEPT !.whitespace = <<>>, !.comment = None]

Removed == [kind |-> "remove", nodes |-> <<>>, exc |-> "none"]

leave_TrailingWhitespace(original_node, updated_node) ==
    IF aggressively_strip_type_comments /\ _is_type_comment(updated_node.comment)
    THEN Return(DefaultTrailingWhitespace)
    ELSE Return(updated_node)

leave_EmptyLine(original_node, updated_node) ==
    IF aggressively_strip_type_comments /\ _is_type_comment(updated_node.comment)
    THEN Removed
    ELSE Return(updated_node)

-----------------------------------------------------------------------------
(* ConvertTypeComments.leave_SimpleStatementLine.                          *)

Front(seq) == SubSeq(seq, 1, Len(seq) - 1)

leave_SimpleStatementLine(original_node, updated_node) ==
    LET assign == LastOf(updated_node.body) IN
    IF assign.k # "Assign" THEN Return(updated_node)
    ELSE LET annotation == _annotation_for_statement(original_node) IN
    IF IsNone(annotation) THEN Return(updated_node)
    ELSE LET converted == convert_Assign(assign, Get(annotation)) IN
    IF converted.kind = "_FailedToApplyAnnotation" THEN Return(updated_node)
    ELSE IF converted.kind = "AnnAssign" THEN
        Return([updated_node EXCEPT
                  !.body = Front(updated_node.body) \o converted.items,
                  !.trailing_whitespace =
                      _strip_TrailingWhitespace(updated_node.trailing_whitespace)])
    ELSE LET new_statements ==
                 [i \in 1..(Len(updated_node.body) - 1) |->
                     [updated_node.body[i] EXCEPT !.semicolon = DEFAULT]]
                 \o converted.items
         IN
         IF Len(new_statements) < 2 THEN Raise("RuntimeError: Unreachable code.")
         ELSE FlattenSentinel(
                <<[updated_node EXCEPT
                     !.body = <<new_statements[1]>>,
                     !.trailing_whitespace =
                         _strip_TrailingWhitespace(updated_node.trailing_whitespace)]>>
                \o [i \in 1..(Len(new_statements) - 1) |->
                      NewSimpleStatementLine(<<new_statements[i + 1]>>)])

-----------------------------------------------------------------------------
(* ConvertTypeComments.leave_For and leave_With.                           *)

leave_For(original_node, updated_node) ==
    LET body == updated_node.body IN
    IF body.k # "IndentedBlock" THEN Return(updated_node)
    ELSE LET annotation == _annotation_for_statement(original_node) IN
    IF IsNone(annotation) THEN Return(updated_node)
    ELSE LET type_declarations ==
                 type_declaration_statements(
                     unpack_target(updated_node.target),
                     unpack_annotation(Get(annotation)),
                     updated_node.leading_lines)
         IN
         IF type_declarations.err THEN Return(updated_node)
         ELSE FlattenSentinel(
                type_declarations.out
                \o <<[updated_node EXCEPT
                        !.body = [body EXCEPT
                                    !.header = _strip_TrailingWhitespace(body.header)],
                        !.leading_lines = <<>>]>>)

\* [item.asname.name for item in items if item.asname is not None]
RECURSIVE AsNameTargets(_)
AsNameTargets(items) ==
    IF Len(items) = 0 THEN <<>>
    ELSE (IF IsNone(Head(items).asname) THEN <<>> ELSE <<Get(Head(items).asname).name>>)
         \o AsNameTargets(Tail(items))

leave_With(original_node, updated_node) ==
    LET body == updated_node.body IN
    IF body.k # "IndentedBlock" THEN Return(updated_node)
    ELSE LET annotation == _annotation_for_statement(original_node) IN
    IF IsNone(annotation) THEN Return(updated_node)
    ELSE LET targets == AsNameTargets(updated_node.items) IN
    IF Len(targets) # 1 THEN Return(updated_node)
    ELSE LET type_declarations ==
                 type_declaration_statements(
                     unpack_target(targets[1]),
                     unpack_annotation(Get(annotation)),
                     updated_node.leading_lines)
         IN
         IF type_declarations.err THEN Return(updated_node)
         ELSE FlattenSentinel(
                type_declarations.out
                \o <<[updated_node EXCEPT
                        !.body = [body EXCEPT
                                    !.header = _strip_TrailingWhitespace(body.header)],
                        !.leading_lines = <<>>]>>)

-----------------------------------------------------------------------------
(* _parse_func_type_comment: ast.parse(text, mode="func_type").            *)
(* func_type: '(' [argtype (',' argtype)*] ')' '->' expression, where an   *)
(* argtype is an expression, possibly after '*' or '**'.                   *)

FuncTypeFail == [ok |-> FALSE, argtypes |-> <<>>, returns |-> AstTuple(<<>>)]

RECURSIVE ParseArgTypes(_, _, _)
\* the argument types from token i on, up to the closing parenthesis
ParseArgTypes(toks, i, acc) ==
    LET j == IF i <= Len(toks) /\ toks[i] \in {"*", "**"} THEN i + 1 ELSE i
        r == ParseAtom(toks, j)
    IN
    IF ~r.ok THEN [ok |-> FALSE, argtypes |-> <<>>, next |-> 0]
    ELSE IF r.next <= Len(toks) /\ toks[r.next] = ","
    THEN ParseArgTypes(toks, r.next + 1, Append(acc, r.node))
    ELSE [ok |-> TRUE, argtypes |-> Append(acc, r.node), next |-> r.next]

AstParseFuncType(toks) ==
    IF ~(Len(toks) >= 1 /\ toks[1] = "(") THEN FuncTypeFail
    ELSE LET parsed == IF Len(toks) >= 2 /\ toks[2] = ")"
                     THEN [ok |-> TRUE, argtypes |-> <<>>, next |-> 2]
                     ELSE ParseArgTypes(toks, 2, <<>>)
         IN
         IF ~parsed.ok THEN FuncTypeFail
         ELSE IF ~(parsed.next + 1 <= Len(toks) /\ toks[parsed.next] = ")"
                   /\ toks[parsed.next + 1] = "->")
         THEN FuncTypeFail
         ELSE LET r == ParseAtom(toks, parsed.next + 2) IN
              IF r.ok /\ r.next = Len(toks) + 1
              THEN [ok |-> TRUE, argtypes |-> parsed.argtypes, returns |-> r.node]
              ELSE FuncTypeFail

\* None for no comment; otherwise the parse, which raises SyntaxError when ~ok
_parse_func_type_comment(func_type_comment) ==
    IF IsNone(func_type_comment) THEN None
    ELSE Some(AstParseFuncType(Get(func_type_comment)))

-----------------------------------------------------------------------------
(* FunctionTypeInfo.  A dict is a function from its keys.                  *)

EmptyDict == [key \in {} |-> None]
DictGet(dict, key) == IF key \in DOMAIN dict THEN dict[key] ELSE None
\* {key(i): value(i) for i in 1..n}: of two equal keys the later one stays
LastIndexOf(keys, key) ==
    CHOOSE i \in 1..Len(keys) : keys[i] = key /\ \A j \in (i + 1)..Len(keys) : keys[j] # key

FunctionTypeInfo(arguments, returns) == [arguments |-> arguments, returns |-> returns]

is_empty(self) == IsNone(self.returns) /\ DOMAIN self.arguments = {}

\* `a or b` turned around: b whatever a is
Or_second(a, b) == b

\* Python's `a or b` on an Optional[str] a: b when a is None or ""
Or(a, b) == IF IsNone(a) \/ Get(a) = <<>> THEN b ELSE a

\* from_cst without the case of the `(...) -> R` form: the ellipsis counts as
\* the type of one parameter
from_cst_without_ellipsis(node_cst) ==
    LET node_ast == _ast_for_statement(node_cst)
        ast_args == node_ast.args
        func_type_annotation == _parse_func_type_comment(node_ast.type_comment)
    IN
    IF ~IsNone(func_type_annotation) /\ ~Get(func_type_annotation).ok
    THEN FunctionTypeInfo(EmptyDict, None)
    ELSE IF IsNone(func_type_annotation)
    THEN LET typed == {i \in 1..Len(ast_args) : ~IsNone(ast_args[i].type_comment)} IN
         FunctionTypeInfo(
             [key \in {ast_args[i].arg : i \in typed} |->
                 ast_args[CHOOSE i \in typed :
                            /\ ast_args[i].arg = key
                            /\ \A j \in typed : ast_args[j].arg = key => j <= i].type_comment],
             None)
    ELSE LET argtypes == Get(func_type_annotation).argtypes
             returns == AstUnparse(Get(func_type_annotation).returns)
             names == [i \in 1..Len(ast_args) |-> ast_args[i].arg]
         IN
         IF Len(argtypes) = Len(ast_args)
         THEN FunctionTypeInfo(
                 [key \in {names[i] : i \in 1..Len(names)} |->
                     Or(ast_args[LastIndexOf(names, key)].type_comment,
                        Some(AstUnparse(argtypes[LastIndexOf(names, key)])))],
                 Some(returns))
         ELSE FunctionTypeInfo(EmptyDict, None)

\* from_cst that keeps the return type of a function-level comment whose
\* number of types is not the number of parameters
from_cst_keeping_returns(node_cst) ==
    LET node_ast == _ast_for_statement(node_cst)
        ast_args == node_ast.args
        func_type_annotation == _parse_func_type_comment(node_ast.type_comment)
    IN
    IF ~IsNone(func_type_annotation) /\ ~Get(func_type_annotation).ok
    THEN FunctionTypeInfo(EmptyDict, None)
    ELSE IF IsNone(func_type_annotation)
    THEN LET typed == {i \in 1..Len(ast_args) : ~IsNone(ast_args[i].type_comment)} IN
         FunctionTypeInfo(
             [key \in {ast_args[i].arg : i \in typed} |->
                 ast_args[CHOOSE i \in typed :
                            /\ ast_args[i].arg = key
                            /\ \A j \in typed : ast_args[j].arg = key => j <= i].type_comment],
             None)
    ELSE LET argtypes == Get(func_type_annotation).argtypes
             returns == AstUnparse(Get(func_type_annotation).returns)
             names == [i \in 1..Len(ast_args) |-> ast_args[i].arg]
         IN
         IF Len(argtypes) = 1 /\ argtypes[1].k = "Constant" /\ argtypes[1].value = "Ellipsis"
         THEN FunctionTypeInfo(
                 [key \in {names[i] : i \in 1..Len(names)} |->
                     ast_args[LastIndexOf(names, key)].type_comment],
                 Some(returns))
         ELSE IF Len(argtypes) = Len(ast_args)
         THEN FunctionTypeInfo(
                 [key \in {names[i] : i \in 1..Len(names)} |->
                     Or(ast_args[LastIndexOf(names, key)].type_comment,
                        Some(AstUnparse(argtypes[LastIndexOf(names, key)])))],
                 Some(returns))
         ELSE FunctionTypeInfo(EmptyDict, Some(returns))

\* from_cst once the statement is parsed: the args of the def and its parsed
\* function-level comment
from_cst_of_args(ast_args, func_type_annotation) ==
    IF ~IsNone(func_type_annotation) /\ ~Get(func_type_annotation).ok
    THEN FunctionTypeInfo(EmptyDict, None)
    ELSE IF IsNone(func_type_annotation)
    THEN LET typed == {i \in 1..Len(ast_args) : ~IsNone(ast_args[i].type_comment)} IN
         FunctionTypeInfo(
             [key \in {ast_args[i].arg : i \in typed} |->
                 ast_args[CHOOSE i \in typed :
                            /\ ast_args[i].arg = key
                            /\ \A j \in typed : ast_args[j].arg = key => j <= i].type_comment],
             None)
    ELSE LET argtypes == Get(func_type_annotation).argtypes
             returns == AstUnparse(Get(func_type_annotation).returns)
             names == [i \in 1..Len(ast_args) |-> ast_args[i].arg]
         IN
         IF Len(argtypes) = 1 /\ argtypes[1].k = "Constant" /\ argtypes[1].value = "Ellipsis"
         THEN FunctionTypeInfo(
                 [key \in {names[i] : i \in 1..Len(names)} |->
                     ast_args[LastIndexOf(names, key)].type_comment],
                 Some(returns))
         ELSE IF Len(argtypes) = Len(ast_args)
         THEN FunctionTypeInfo(
                 [key \in {names[i] : i \in 1..Len(names)} |->
                     Or(ast_args[LastIndexOf(names, key)].type_comment,
                        Some(AstUnparse(argtypes[LastIndexOf(names, key)])))],
                 Some(returns))
         ELSE FunctionTypeInfo(EmptyDict, None)

from_cst_of_statement(node_ast) ==
    from_cst_of_args(node_ast.args, _parse_func_type_comment(node_ast.type_comment))

from_cst(node_cst) == from_cst_of_statement(_ast_for_statement(node_cst))

-----------------------------------------------------------------------------
(* ConvertTypeComments: the hooks of function definitions.  The hooks that *)
(* change the state of the codemod give the new state as a record.         *)

\* visit_FunctionDef that turns the stripping on for every function
visit_FunctionDef_always_stripping(node) ==
    LET function_type_info == from_cst(node) IN
    [aggressively_strip_type_comments |-> TRUE,
     function_type_info_stack |-> Append(function_type_info_stack, function_type_info),
     function_body_stack |-> Append(function_body_stack, node.body)]

visit_FunctionDef(node) ==
    LET function_type_info == from_cst(node) IN
    [aggressively_strip_type_comments |-> ~is_empty(function_type_info),
     function_type_info_stack |-> Append(function_type_info_stack, function_type_info),
     function_body_stack |-> Append(function_body_stack, node.body)]

\* visit_FunctionDef_body that leaves aggressively_strip_type_comments as it is
visit_FunctionDef_body_keeping(node) ==
    [aggressively_strip_type_comments |-> aggressively_strip_type_comments]

visit_FunctionDef_body(node) == [aggressively_strip_type_comments |-> FALSE]

\* leave_IndentedBlock that strips the header of the body and leaves the
\* leading lines of the first statement alone
leave_IndentedBlock_header_only(original_node, updated_node) ==
    IF Len(function_body_stack) = 0 THEN Return(updated_node)
    ELSE IF original_node # LastOf(function_body_stack) THEN Return(updated_node)
    ELSE IF is_empty(LastOf(function_type_info_stack)) THEN Return(updated_node)
    ELSE IF _is_type_comment(updated_node.header.comment)
    THEN Return([updated_node EXCEPT !.header = DefaultTrailingWhitespace])
    ELSE Return(updated_node)

leave_IndentedBlock(original_node, updated_node) ==
    IF Len(function_body_stack) = 0 THEN Return(updated_node)
    ELSE IF original_node # LastOf(function_body_stack) THEN Return(updated_node)
    ELSE IF is_empty(LastOf(function_type_info_stack)) THEN Return(updated_node)
    ELSE LET stripped == IF _is_type_comment(updated_node.header.comment)
                         THEN [updated_node EXCEPT !.header = DefaultTrailingWhitespace]
                         ELSE updated_node
         IN
         IF Len(stripped.body) = 0 THEN Raise("IndexError")
         ELSE LET first_statement == stripped.body[1] IN
              IF "leading_lines" \notin DOMAIN first_statement THEN Return(stripped)
              ELSE Return([stripped EXCEPT
                     !.body = <<[first_statement EXCEPT
                                   !.leading_lines =
                                       SelectSeq(first_statement.leading_lines,
                                                 LAMBDA line : ~_is_type_comment(line.comment))]>>
                              \o Tail(stripped.body)])

\* leave_Param without the look at the annotation the Param has
leave_Param_overriding(original_node, updated_node) ==
    IF Len(function_type_info_stack) = 0 THEN Raise("IndexError")
    ELSE LET function_type_info == LastOf(function_type_info_stack)
             raw_annotation == DictGet(function_type_info.arguments, updated_node.name.value)
         IN
         IF ~IsNone(raw_annotation)
         THEN Return([updated_node EXCEPT
                        !.annotation = Some(_convert_annotation(Get(raw_annotation)))])
         ELSE Return(updated_node)

leave_Param(original_node, updated_node) ==
    IF ~IsNone(updated_node.annotation) THEN Return(updated_node)
    ELSE IF Len(function_type_info_stack) = 0 THEN Raise("IndexError")
    ELSE LET function_type_info == LastOf(function_type_info_stack)
             raw_annotation == DictGet(function_type_info.arguments, updated_node.name.value)
         IN
         IF ~IsNone(raw_annotation)
         THEN Return([updated_node EXCEPT
                        !.annotation = Some(_convert_annotation(Get(raw_annotation)))])
         ELSE Return(updated_node)

\* leave_FunctionDef that pops function_type_info_stack only
leave_FunctionDef_keeping_body(original_node, updated_node) ==
    LET function_type_info == LastOf(function_type_info_stack) IN
    [function_body_stack |-> function_body_stack,
     function_type_info_stack |-> Front(function_type_info_stack),
     result |->
        IF IsNone(updated_node.returns) /\ ~IsNone(function_type_info.returns)
        THEN Return([updated_node EXCEPT
                       !.returns = Some(_convert_annotation(Get(function_type_info.returns)))])
        ELSE Return(updated_node)]

\* the node returned, and the stacks after the two pops
leave_FunctionDef(original_node, updated_node) ==
    LET function_type_info == LastOf(function_type_info_stack) IN
    [function_body_stack |-> Front(function_body_stack),
     function_type_info_stack |-> Front(function_type_info_stack),
     result |->
        IF IsNone(updated_node.returns) /\ ~IsNone(function_type_info.returns)
        THEN Return([updated_node EXCEPT
                       !.returns = Some(_convert_annotation(Get(function_type_info.returns)))])
        ELSE Return(updated_node)]

-----------------------------------------------------------------------------
(* The traversal: a node's children are visited first, then its leave_     *)
(* hook gets the original node and the node rebuilt from the children's    *)
(* results; a flatten result is spliced in, a removed child is dropped,    *)
(* and an exception of a child's hook ends the traversal.                  *)

RaisedIn(results) == \E i \in 1..Len(results) : results[i].kind = "raise"
FirstRaised(results) ==
    results[CHOOSE i \in 1..Len(results) :
              results[i].kind = "raise" /\ \A j \in 1..(i - 1) : results[j].kind # "raise"]
Splice(results) == Flatten([i \in 1..Len(results) |-> results[i].nodes])

VisitEmptyLines(leading_lines) ==
    Splice([i \in 1..Len(leading_lines) |-> leave_EmptyLine(leading_lines[i], leading_lines[i])])
VisitTrailingWhitespace(node) == leave_TrailingWhitespace(node, node).nodes[1]

\* the SimpleStatementLine as leave_SimpleStatementLine gets it for updated_node
UpdatedSimpleStatementLine(node) ==
    [node EXCEPT !.leading_lines = VisitEmptyLines(node.leading_lines),
                 !.trailing_whitespace = VisitTrailingWhitespace(node.trailing_whitespace)]
VisitSimpleStatementLine(node) ==
    leave_SimpleStatementLine(node, UpdatedSimpleStatementLine(node))

\* the result of visiting an IndentedBlock whose statements gave results
VisitIndentedBlock(body, results) ==
    IF RaisedIn(results) THEN FirstRaised(results)
    ELSE leave_IndentedBlock(
            body,
            [body EXCEPT !.header = VisitTrailingWhitespace(body.header),
                         !.body = Splice(results)])

\* the result of visiting a body: the new body, or the exception of a statement
VisitBody(body) ==
    IF body.k = "IndentedBlock"
    THEN VisitIndentedBlock(
            body, [i \in 1..Len(body.body) |-> VisitSimpleStatementLine(body.body[i])])
    ELSE Return([body EXCEPT
                   !.trailing_whitespace = VisitTrailingWhitespace(body.trailing_whitespace)])

\* a For or With as its leave_ hook gets it for updated_node, its body visited
UpdatedCompound(node, body) ==
    [node EXCEPT !.leading_lines = VisitEmptyLines(node.leading_lines),
                 !.body = body]

-----------------------------------------------------------------------------
(* The statements the hooks are run on.                                    *)

Value == Integer(<<"1">>)
AssignTargets(targets) == [i \in 1..Len(targets) |-> AssignTarget(targets[i])]

LeadingLinesInputs ==
    {<<>>, <<EmptyLine(PlainComment)>>, <<EmptyLine(TypeComment(<<"int">>))>>}
CommentInputs ==
    {None, PlainComment, IgnoreComment, TypeComment(<<>>), TypeComment(<<"T">>),
     TypeComment(<<"int", ",", "T">>), TypeComment(<<"(", "int">>)}
SmallTargetLists ==
    {TargetsOfForest(f, 0) : f \in {<<LeafShape>>, <<LeafShape, LeafShape>>,
                                    <<TupleShape(<<LeafShape, LeafShape>>)>>,
                                    <<TupleShape(<<>>)>>}}

AssignLine(leading_lines, previous, targets, semicolon, comment) ==
    SimpleStatementLine(leading_lines,
                        previous \o <<Assign(AssignTargets(targets), Value, semicolon)>>,
                        TrailingWhitespace(<<"  ">>, comment))

SimpleStatementLineInputs ==
    \* every target list with every type comment, alone on the line or after `expr;`
    {AssignLine(<<>>, previous, targets, DEFAULT, TypeComment(payload)) :
        previous \in {<<>>, <<Expr(Semicolon)>>},
        targets \in TargetLists, payload \in TypePayloads}
    \cup
    \* the ways a line is laid out around a few target lists
    {AssignLine(leading_lines, previous, targets, semicolon, comment) :
        leading_lines \in LeadingLinesInputs,
        previous \in {<<>>, <<Expr(Semicolon)>>},
        targets \in SmallTargetLists,
        semicolon \in {DEFAULT, Semicolon},
        comment \in CommentInputs}
    \cup
    \* lines that end with another statement than an Assign
    {SimpleStatementLine(<<>>, <<last>>, TrailingWhitespace(<<"  ">>, comment)) :
        last \in {Expr(DEFAULT), AugAssign(DEFAULT),
                  AnnAssign(Name(<<"a">>), Annotation(Name(<<"int">>)), Some(Value), DEFAULT)},
        comment \in CommentInputs}

PassLine == SimpleStatementLine(<<>>, <<Expr(DEFAULT)>>, DefaultTrailingWhitespace)
BodyInputs(comment) ==
    {IndentedBlock(TrailingWhitespace(<<"  ">>, comment), <<line>>) :
        line \in {PassLine,
                  \* h = 1  # type: int
                  AssignLine(<<>>, <<>>, <<Name(<<"h">>)>>, DEFAULT, TypeComment(<<"int">>)),
                  \* h += 1  # type: int
                  SimpleStatementLine(<<>>, <<AugAssign(DEFAULT)>>,
                                      TrailingWhitespace(<<"  ">>, TypeComment(<<"int">>))),
                  \* () = 1  # type: ()
                  AssignLine(<<>>, <<>>, <<Tuple(<<>>)>>, DEFAULT, TypeComment(<<"(", ")">>))}}
    \cup {SimpleStatementSuite(<<Expr(DEFAULT)>>, TrailingWhitespace(<<"  ">>, comment))}
PassBody(comment) == IndentedBlock(TrailingWhitespace(<<"  ">>, comment), <<PassLine>>)

ForInputs ==
    {For(leading_lines, target, PassBody(TypeComment(payload))) :
        leading_lines \in {<<>>, <<EmptyLine(PlainComment)>>},
        target \in TargetExprs, payload \in TypePayloads}
    \cup
    {For(leading_lines, targets[1], body) :
        leading_lines \in LeadingLinesInputs,
        targets \in {ts \in SmallTargetLists : Len(ts) = 1},
        body \in UNION {BodyInputs(comment) : comment \in CommentInputs}}

WithItemsInputs ==
    {<<WithItem(Some(AsName(target)))>> : target \in TargetExprs}
    \cup {<<WithItem(None)>>,
          <<WithItem(Some(AsName(Name(<<"a">>)))), WithItem(Some(AsName(Name(<<"b">>))))>>,
          <<WithItem(None), WithItem(Some(AsName(Name(<<"a">>))))>>,
          <<WithItem(Some(AsName(Tuple(<<Element(Name(<<"a">>)), Element(Name(<<"b">>))>>)))),
            WithItem(None)>>}

WithInputs ==
    {With(leading_lines, items, PassBody(TypeComment(payload))) :
        leading_lines \in {<<>>, <<EmptyLine(PlainComment)>>},
        items \in WithItemsInputs, payload \in TypePayloads}
    \cup
    {With(leading_lines, items, body) :
        leading_lines \in LeadingLinesInputs,
        items \in {<<WithItem(Some(AsName(Name(<<"a">>))))>>,
                   <<WithItem(Some(AsName(Tuple(<<Element(Name(<<"a">>)),
                                                  Element(Name(<<"b">>))>>))))>>},
        body \in UNION {BodyInputs(comment) : comment \in CommentInputs}}

DecodedAnnotations ==
    {AstParseEval(payload).node : payload \in {p \in TypePayloads : AstParseEval(p).ok}}
UnpackedBindingsInputs == {unpack_target(target) : target \in TargetExprs}
UnpackedAnnotationsInputs == {unpack_annotation(a) : a \in DecodedAnnotations}

-----------------------------------------------------------------------------
(* The codemod run on statements outside any function: a step visits one   *)
(* statement (its children, then its leave_ hook) or calls                 *)
(* AnnotationSpreader.annotated_bindings; the next step goes on to the     *)
(* next statement, unless the hook raised, which ends the run.             *)

NoResult == [kind |-> "none", nodes |-> <<>>, exc |-> "none"]

Idle == "idle"

Init ==
    /\ hook = Idle
    /\ args = <<>>
    /\ result = NoResult
    /\ function_type_info_stack = <<>>
    /\ function_body_stack = <<>>
    /\ aggressively_strip_type_comments = FALSE
    /\ frames = <<>>
    /\ pass = 1

Call_annotated_bindings ==
    /\ hook = Idle
    /\ \E bindings \in UnpackedBindingsInputs, annotations \in UnpackedAnnotationsInputs :
          /\ hook' = "annotated_bindings"
          /\ args' = [bindings |-> bindings, annotations |-> annotations]
          /\ result' = annotated_bindings(bindings, annotations)
    /\ UNCHANGED <<codemod_state, frames>>
    /\ UNCHANGED pass

Visit_SimpleStatementLine ==
    /\ hook = Idle
    /\ \E node \in SimpleStatementLineInputs :
          /\ hook' = "leave_SimpleStatementLine"
          /\ args' = [original_node |-> node, updated_node |-> UpdatedSimpleStatementLine(node)]
          /\ result' = VisitSimpleStatementLine(node)
    /\ UNCHANGED <<codemod_state, frames>>
    /\ UNCHANGED pass

\* a For or With whose body raises never reaches its own leave_ hook: the step
\* ends in the hook of the body statement that raised
Visit_For ==
    /\ hook = Idle
    /\ \E node \in ForInputs : \E body \in {VisitBody(node.body)} :
          IF body.kind = "raise"
          THEN /\ hook' = "leave_SimpleStatementLine"
               /\ args' = [original_node |-> node.body.body[1],
                           updated_node |-> UpdatedSimpleStatementLine(node.body.body[1])]
               /\ result' = body
          ELSE \E updated_node \in {UpdatedCompound(node, body.nodes[1])} :
                  /\ hook' = "leave_For"
                  /\ args' = [original_node |-> node, updated_node |-> updated_node]
                  /\ result' = leave_For(node, updated_node)
    /\ UNCHANGED <<codemod_state, frames>>
    /\ UNCHANGED pass

Visit_With ==
    /\ hook = Idle
    /\ \E node \in WithInputs : \E body \in {VisitBody(node.body)} :
          IF body.kind = "raise"
          THEN /\ hook' = "leave_SimpleStatementLine"
               /\ args' = [original_node |-> node.body.body[1],
                           updated_node |-> UpdatedSimpleStatementLine(node.body.body[1])]
               /\ result' = body
          ELSE \E updated_node \in {UpdatedCompound(node, body.nodes[1])} :
                  /\ hook' = "leave_With"
                  /\ args' = [original_node |-> node, updated_node |-> updated_node]
                  /\ result' = leave_With(node, updated_node)
    /\ UNCHANGED <<codemod_state, frames>>
    /\ UNCHANGED pass

\* the traversal goes on to the next statement
Continue ==
    /\ hook # Idle
    /\ frames = <<>>
    /\ IF hook = "annotated_bindings" THEN TRUE
       ELSE result.kind \in {"node", "flatten", "remove"}
    /\ hook' = Idle
    /\ args' = <<>>
    /\ result' = NoResult
    /\ UNCHANGED <<codemod_state, frames>>
    /\ pass' = 1

Next ==
    \/ Call_annotated_bindings
    \/ Visit_SimpleStatementLine
    \/ Visit_For
    \/ Visit_With
    \/ Continue

Spec == Init /\ [][Next]_vars

-----------------------------------------------------------------------------
(* The claims about the statement hooks, each an invariant of Spec over    *)
(* the hook that ran last, its arguments and its result.                   *)

\* the leaf bindings of a target expression, left to right
RECURSIVE LeafBindings(_)
LeafBindings(target) ==
    IF target.k = "Tuple"
    THEN Flatten([i \in 1..Len(target.elements) |-> LeafBindings(target.elements[i].value)])
    ELSE <<target>>

\* the leaf types of a decoded type comment, left to right, as source text
RECURSIVE LeafTypes(_)
LeafTypes(type) ==
    IF type.k = "Tuple"
    THEN Flatten([i \in 1..Len(type.elts) |-> LeafTypes(type.elts[i])])
    ELSE <<AstUnparse(type)>>

\* a target and a type have the same shape: leaf with leaf, tuple with tuple of
\* the same length whose elements have the same shape
RECURSIVE ShapeMatches(_, _)
ShapeMatches(target, type) ==
    IF target.k = "Tuple"
    THEN /\ type.k = "Tuple"
         /\ Len(target.elements) = Len(type.elts)
         /\ \A i \in 1..Len(target.elements) :
               ShapeMatches(target.elements[i].value, type.elts[i])
    ELSE type.k # "Tuple"

\* the same for the unpacked forms annotated_bindings takes
RECURSIVE SameShape(_, _)
SameShape(bindings, annotations) ==
    IF bindings.list /\ annotations.list
    THEN /\ Len(bindings.items) = Len(annotations.items)
         /\ \A i \in 1..Len(bindings.items) : SameShape(bindings.items[i], annotations.items[i])
    ELSE ~bindings.list /\ ~annotations.list

RECURSIVE Leaves(_)
Leaves(unpacked) ==
    IF unpacked.list
    THEN Flatten([i \in 1..Len(unpacked.items) |-> Leaves(unpacked.items[i])])
    ELSE <<unpacked.leaf>>

\* the value-less declaration `binding: type`
Declaration(binding, type) == AnnAssign(binding, _convert_annotation(type), None, DEFAULT)
\* the declarations of the leaves of the targets, in order
DeclarationsOf(targets, type) ==
    Flatten([i \in 1..Len(targets) |->
        [j \in 1..Len(LeafBindings(targets[i])) |->
            Declaration(LeafBindings(targets[i])[j], LeafTypes(type)[j])]])

\* the comment that can be the type comment of a statement
StatementComment(node) ==
    IF node.k = "SimpleStatementLine" THEN node.trailing_whitespace.comment
    ELSE IF node.body.k = "IndentedBlock" THEN node.body.header.comment
    ELSE node.body.trailing_whitespace.comment

\* the targets a statement binds
BindingTargets(node) ==
    IF node.k = "SimpleStatementLine"
    THEN (IF LastOf(node.body).k = "Assign"
          THEN [i \in 1..Len(LastOf(node.body).targets) |-> LastOf(node.body).targets[i].target]
          ELSE <<>>)
    ELSE IF node.k = "For" THEN <<node.target>>
    ELSE AsNameTargets(node.items)

StatementHooks == {"leave_SimpleStatementLine", "leave_For", "leave_With"}

\* C2: an Assign with one target that is a single binding, and a type comment
\* that is a single type
C2_Case ==
    /\ hook = "leave_SimpleStatementLine"
    /\ Len(BindingTargets(args.original_node)) = 1
    /\ BindingTargets(args.original_node)[1].k # "Tuple"
    /\ ~IsNone(_annotation_for_statement(args.original_node))
    /\ Get(_annotation_for_statement(args.original_node)).k # "Tuple"

\* C2: for an Assign with exactly one non-tuple target and a non-tuple type
\* comment, leave_SimpleStatementLine returns the line with the Assign replaced
\* by one AnnAssign of the same target, value and semicolon, annotated with the
\* comment's type, and with the trailing comment removed.
C2_SingleTargetAssign ==
    C2_Case =>
        LET assign == LastOf(args.updated_node.body)
            type == Get(_annotation_for_statement(args.original_node))
        IN
        /\ result.kind = "node"
        /\ result.nodes[1].leading_lines = args.updated_node.leading_lines
        /\ Front(result.nodes[1].body) = Front(args.updated_node.body)
        /\ LastOf(result.nodes[1].body) =
               AnnAssign(assign.targets[1].target,
                         _convert_annotation(AstUnparse(type)),
                         Some(assign.value),
                         assign.semicolon)
        /\ result.nodes[1].trailing_whitespace.comment = None

\* `expr; a = 1  # type: T` has become `expr; a: "T" = 1`
C2_Witness ==
    /\ C2_Case
    /\ result.kind = "node"
    /\ Len(result.nodes[1].body) = 2
    /\ LastOf(result.nodes[1].body).k = "AnnAssign"
    /\ LastOf(result.nodes[1].body).annotation.annotation.k = "SimpleString"

\* C3: an Assign with several targets or a tuple target, every target of the
\* shape of the type comment
C3_Case ==
    /\ hook = "leave_SimpleStatementLine"
    /\ Len(BindingTargets(args.original_node)) >= 1
    /\ ~IsNone(_annotation_for_statement(args.original_node))
    /\ \A i \in 1..Len(BindingTargets(args.original_node)) :
          ShapeMatches(BindingTargets(args.original_node)[i],
                       Get(_annotation_for_statement(args.original_node)))
    /\ \/ Len(BindingTargets(args.original_node)) > 1
       \/ BindingTargets(args.original_node)[1].k = "Tuple"

\* the statements of the lines of a flatten result, in order
StatementsOf(lines) == Flatten([i \in 1..Len(lines) |-> lines[i].body])

\* C3: for an Assign with several targets and/or a tuple target, all of the
\* shape of the type comment, the statement is replaced by one value-less
\* declaration per leaf binding, in target order, directly followed by the
\* original Assign, and the type comment is gone.
C3_MultiTargetAssign ==
    C3_Case =>
        LET assign == LastOf(args.updated_node.body)
            expected ==
                DeclarationsOf(BindingTargets(args.original_node),
                               Get(_annotation_for_statement(args.original_node)))
                \o <<assign>>
            statements == StatementsOf(result.nodes)
        IN
        /\ result.kind = "flatten"
        /\ Len(statements) >= Len(expected)
        /\ SubSeq(statements, Len(statements) - Len(expected) + 1, Len(statements)) = expected
        /\ \A i \in 1..Len(result.nodes) : result.nodes[i].trailing_whitespace.comment = None

\* C4: a statement whose type comment decodes and one of whose binding targets
\* has another shape than the type
C4_Case ==
    /\ hook \in StatementHooks
    /\ ~IsNone(_annotation_for_statement(args.original_node))
    /\ \E i \in 1..Len(BindingTargets(args.original_node)) :
          ~ShapeMatches(BindingTargets(args.original_node)[i],
                        Get(_annotation_for_statement(args.original_node)))

\* C4: on an arity error leave_SimpleStatementLine, leave_For and leave_With
\* return the updated node unchanged, type comment included, and raise nothing.
C4_ArityErrorLeavesUnchanged ==
    C4_Case =>
        /\ result = Return(args.updated_node)
        /\ StatementComment(result.nodes[1]) = StatementComment(args.original_node)
        /\ TokenizerTypeComment(StatementComment(result.nodes[1]))

\* `a = b = 1  # type: int, T` came back as it was
C4_Witness ==
    /\ C4_Case
    /\ hook = "leave_SimpleStatementLine"
    /\ Len(BindingTargets(args.original_node)) = 2
    /\ Get(_annotation_for_statement(args.original_node)).k = "Tuple"
    /\ result.kind = "node"

\* C5: an Assign, For or With whose type comment the parser rejects
C5_Case ==
    /\ hook \in StatementHooks
    /\ Len(BindingTargets(args.original_node)) >= 1
    /\ TokenizerTypeComment(StatementComment(args.original_node))
    /\ ~AstParseEval(TypeCommentPayload(StatementComment(args.original_node))).ok

\* C5: when the type comment of an Assign, For or With cannot be decoded, the
\* hook returns the statement unchanged, its comment still there, and raises
\* nothing.
C5_UndecodableComment ==
    C5_Case =>
        /\ result = Return(args.updated_node)
        /\ StatementComment(result.nodes[1]) = StatementComment(args.original_node)

\* `with cm as a:  # type: (int` came back as it was
C5_Witness ==
    /\ C5_Case
    /\ hook = "leave_With"
    /\ Len(TypeCommentPayload(StatementComment(args.original_node))) >= 2
    /\ result.kind = "node"

\* C6: annotated_bindings returns the (leaf binding, leaf type) pairs of two
\* identical shapes in left-to-right depth-first order, one pair per leaf, and
\* raises _ArityError exactly when the shapes differ at some level.
C6_annotated_bindings ==
    hook = "annotated_bindings" =>
        /\ result.err <=> ~SameShape(args.bindings, args.annotations)
        /\ SameShape(args.bindings, args.annotations) =>
              result.out = [i \in 1..Len(Leaves(args.bindings)) |->
                              TargetAnnotationPair(Leaves(args.bindings)[i],
                                                   Leaves(args.annotations)[i])]

\* (a, b) with (int, T) gave the two pairs
C6_Witness ==
    /\ hook = "annotated_bindings"
    /\ SameShape(args.bindings, args.annotations)
    /\ ~result.err
    /\ Len(result.out) = 2

\* C7: a For, or a With with one `as` binding, with an indented body and a
\* type comment of the shape of the target
C7_Case ==
    /\ hook \in {"leave_For", "leave_With"}
    /\ args.original_node.body.k = "IndentedBlock"
    /\ Len(BindingTargets(args.original_node)) = 1
    /\ ~IsNone(_annotation_for_statement(args.original_node))
    /\ ShapeMatches(BindingTargets(args.original_node)[1],
                    Get(_annotation_for_statement(args.original_node)))

\* C7: for such a For or With the hook returns a flatten result: one
\* declaration per leaf binding, in order, directly followed by the compound
\* statement, whose header comment is stripped and whose target, iterable or
\* items and body statements are unchanged.
C7_CompoundStatement ==
    C7_Case =>
        LET bindings == LeafBindings(BindingTargets(args.original_node)[1])
            types == LeafTypes(Get(_annotation_for_statement(args.original_node)))
            n == Len(bindings)
        IN
        /\ result.kind = "flatten"
        /\ Len(result.nodes) = n + 1
        /\ \A i \in 1..n :
              /\ result.nodes[i].k = "SimpleStatementLine"
              /\ result.nodes[i].body = <<Declaration(bindings[i], types[i])>>
        /\ result.nodes[n + 1].body.header.comment = None
        /\ [result.nodes[n + 1] EXCEPT !.leading_lines = <<>>,
                                       !.body.header = DefaultTrailingWhitespace]
           = [args.updated_node EXCEPT !.leading_lines = <<>>,
                                       !.body.header = DefaultTrailingWhitespace]

\* `for (a, b) in it:  # type: int, T` has become two declarations and the loop
C7_Witness ==
    /\ C7_Case
    /\ hook = "leave_For"
    /\ result.kind = "flatten"
    /\ Len(result.nodes) = 3

-----------------------------------------------------------------------------
(* The function definitions the hooks are run on.                          *)

\* most parameters of one function
MaxParams == 2

\* the parameter groups in the order of a signature:
\* posonly_params, params, star_arg, kwonly_params, star_kwarg
PosOnlyGroup == 1
ParamsGroup == 2
StarArgGroup == 3
KwOnlyGroup == 4
StarKwargGroup == 5

\* the ways n parameters fall into the groups: in the order of the groups, and
\* at most one parameter each for *args and **kwargs
GroupLayouts(n) ==
    {g \in [1..n -> PosOnlyGroup..StarKwargGroup] :
        \A i \in 1..(n - 1) :
            /\ g[i] <= g[i + 1]
            /\ g[i] = g[i + 1] => g[i] \notin {StarArgGroup, StarKwargGroup}}

\* the parameters of ps that the layout g puts into the group
GroupOf(ps, g, group) == SelectSeq([i \in 1..Len(ps) |-> [p |-> ps[i], g |-> g[i]]],
                                   LAMBDA e : e.g = group)
ParamsOfGroup(ps, g, group) ==
    [i \in 1..Len(GroupOf(ps, g, group)) |-> GroupOf(ps, g, group)[i].p]

ParametersOf(ps, g) ==
    Parameters(ParamsOfGroup(ps, g, PosOnlyGroup), ParamsOfGroup(ps, g, ParamsGroup),
               ParamsOfGroup(ps, g, StarArgGroup), ParamsOfGroup(ps, g, KwOnlyGroup),
               ParamsOfGroup(ps, g, StarKwargGroup))

StarOf(group) == IF group = StarArgGroup THEN "*" ELSE IF group = StarKwargGroup THEN "**" ELSE ""

\* the i-th parameter is named BindingNames[i]; an inline type comment on it
\* spells the i-th of the names T, U, V, W, and the function-level comment
\* gives it the i-th of int, str, bool, float
InlineTypeName(i) == TypeNames[2 * i]
FunctionLevelTypeName(i) == TypeNames[2 * i - 1]

ParamAnnotationInputs == {None, Some(Annotation(Name(<<"bool">>)))}
\* no comment, `# type:` and `# type: T` after the parameter
ParamCommentInputs(i) == {None, TypeComment(<<>>), TypeComment(<<InlineTypeName(i)>>)}

ParamInputs(i, group) ==
    {Param(Name(<<BindingNames[i]>>), annotation, StarOf(group),
           TrailingWhitespace(<<"  ">>, comment)) :
        annotation \in ParamAnnotationInputs, comment \in ParamCommentInputs(i)}

\* every parameter list of n parameters
ParametersOfLength(n) ==
    UNION {{ParametersOf(ps, g) :
               ps \in {qs \in [1..n -> UNION {ParamInputs(i, g[i]) : i \in 1..n}] :
                          \A i \in 1..n : qs[i] \in ParamInputs(i, g[i])}}
           : g \in GroupLayouts(n)}
ParametersInputs == UNION {ParametersOfLength(n) : n \in 0..MaxParams}

RECURSIVE ArgTypesText(_, _)
\* the text of the function-level types of the parameters i..k: int, str, ...
ArgTypesText(i, k) ==
    IF i > k THEN <<>>
    ELSE <<FunctionLevelTypeName(i)>> \o (IF i = k THEN <<>> ELSE <<",">> \o ArgTypesText(i + 1, k))

FuncTypeText(argtypes) == <<"(">> \o argtypes \o <<")", "->", "R">>

\* the payloads of the function-level comments: `(int, ..) -> R` for every number
\* of types up to one more than the parameters, the ellipsis form, starred
\* types, one tuple type, and payloads that are no function type
FuncTypePayloads ==
    {FuncTypeText(ArgTypesText(1, k)) : k \in 0..(MaxParams + 1)}
    \cup {FuncTypeText(<<"...">>),
          FuncTypeText(<<"*", "int", ",", "**", "str">>),
          FuncTypeText(<<"(", "int", ",", "str", ")">>),
          <<"(", "int", ")", "->">>,
          <<"int">>,
          <<>>}
FunctionCommentInputs == {None} \cup {TypeComment(payload) : payload \in FuncTypePayloads}

\* def fn(<parameters>):  <comment>
\*     pass
SignatureInputs ==
    {FunctionDef(<<>>, parameters, None, PassBody(comment)) :
        parameters \in ParametersInputs, comment \in FunctionCommentInputs}

\* the ways the function-level comment and other comments are laid out around
\* the body of `def fn(a): ...`
FunctionCommentLine == EmptyLine(TypeComment(FuncTypeText(<<"int">>)))
\* a function-level comment that gives two types to the one parameter
MismatchedComment == TypeComment(FuncTypeText(<<"int", ",", "str">>))
HeaderCommentInputs ==
    {None, PlainComment, IgnoreComment, TypeComment(FuncTypeText(<<"int">>)),
     TypeComment(FuncTypeText(<<"...">>)), MismatchedComment}
FirstLeadingLinesInputs ==
    {<<>>, <<FunctionCommentLine>>, <<EmptyLine(PlainComment), FunctionCommentLine>>,
     <<EmptyLine(IgnoreComment)>>, <<EmptyLine(MismatchedComment)>>}
StatementsInputs(leading_lines) ==
    {<<SimpleStatementLine(leading_lines, <<Expr(DEFAULT)>>, DefaultTrailingWhitespace)>>,
     \* h = 1  # type: int
     <<AssignLine(leading_lines, <<>>, <<Name(<<"h">>)>>, DEFAULT, TypeComment(<<"int">>))>>,
     \* () = 1  # type: ()
     <<AssignLine(leading_lines, <<>>, <<Tuple(<<>>)>>, DEFAULT, TypeComment(<<"(", ")">>))>>,
     \* pass, then h += 1  # type: int
     <<SimpleStatementLine(leading_lines, <<Expr(DEFAULT)>>, DefaultTrailingWhitespace),
       SimpleStatementLine(<<>>, <<AugAssign(DEFAULT)>>,
                           TrailingWhitespace(<<"  ">>, TypeComment(<<"int">>)))>>,
     \* pass, then a type comment on a line of its own, then pass
     <<SimpleStatementLine(leading_lines, <<Expr(DEFAULT)>>, DefaultTrailingWhitespace),
       SimpleStatementLine(<<FunctionCommentLine>>, <<Expr(DEFAULT)>>,
                           DefaultTrailingWhitespace)>>}
FunctionBodyInputs ==
    {IndentedBlock(TrailingWhitespace(<<"  ">>, comment), statements) :
        comment \in HeaderCommentInputs,
        statements \in UNION {StatementsInputs(leading_lines) :
                                 leading_lines \in FirstLeadingLinesInputs}}
    \cup {SimpleStatementSuite(<<Expr(DEFAULT)>>, TrailingWhitespace(<<"  ">>, comment)) :
             comment \in {None, TypeComment(FuncTypeText(<<"int">>))}}

LayoutInputs ==
    {FunctionDef(leading_lines,
                 Parameters(<<>>,
                            <<Param(Name(<<"a">>), annotation, "",
                                    TrailingWhitespace(<<"  ">>, comment))>>,
                            None, <<>>, None),
                 returns, body) :
        leading_lines \in LeadingLinesInputs,
        annotation \in ParamAnnotationInputs,
        comment \in {None, TypeComment(<<"T">>)},
        returns \in {None, Some(Annotation(Name(<<"bool">>)))},
        body \in FunctionBodyInputs}

FunctionDefInputs == SignatureInputs \cup LayoutInputs

-----------------------------------------------------------------------------
(* The codemod run on a function definition, hook by hook in the order of  *)
(* the traversal: visit_FunctionDef, the leading lines, every Param (its   *)
(* whitespace, then leave_Param), visit_FunctionDef_body, the body (its    *)
(* statements, then leave_IndentedBlock), leave_FunctionDef.  A frame      *)
(* holds a FunctionDef that is entered and not yet left, and the children  *)
(* rebuilt so far.                                                         *)

Frame(node) ==
    [node |-> node, phase |-> "leading_lines", leading_lines |-> <<>>, params |-> <<>>,
     inner |-> <<>>, body |-> node.body]
Top == LastOf(frames)
Replace(frame) == Front(frames) \o <<frame>>

\* the Parameters with its Params replaced, group by group, by the updated ones
UpdatedParameters(parameters, updated) ==
    LET n1 == Len(parameters.posonly_params)
        n2 == n1 + Len(parameters.params)
        n3 == n2 + Len(parameters.star_arg)
        n4 == n3 + Len(parameters.kwonly_params)
    IN Parameters(SubSeq(updated, 1, n1), SubSeq(updated, n1 + 1, n2),
                  SubSeq(updated, n2 + 1, n3), SubSeq(updated, n3 + 1, n4),
                  SubSeq(updated, n4 + 1, Len(updated)))

\* the FunctionDef as leave_FunctionDef gets it for updated_node
UpdatedFunctionDef(frame) ==
    [frame.node EXCEPT !.leading_lines = frame.leading_lines,
                       !.params = UpdatedParameters(frame.node.params, frame.params),
                       !.body = frame.body]

Enter_FunctionDef ==
    /\ hook = Idle
    /\ frames = <<>>
    /\ \E node \in FunctionDefInputs : \E entered \in {visit_FunctionDef(node)} :
          /\ hook' = "visit_FunctionDef"
          /\ args' = [node |-> node]
          /\ result' = NoResult
          /\ aggressively_strip_type_comments' = entered.aggressively_strip_type_comments
          /\ function_type_info_stack' = entered.function_type_info_stack
          /\ function_body_stack' = entered.function_body_stack
          /\ frames' = <<Frame(node)>>
    /\ UNCHANGED pass

\* the FunctionDefs among the first n statements of a body
RECURSIVE InnerFunctionDefs(_, _)
InnerFunctionDefs(body, n) ==
    IF body.k # "IndentedBlock" \/ n = 0 THEN <<>>
    ELSE InnerFunctionDefs(body, n - 1)
         \o (IF body.body[n].k = "FunctionDef" THEN <<body.body[n]>> ELSE <<>>)

\* the result of visiting the body of a FunctionDef whose inner FunctionDefs
\* gave the results inner, or the exception of a statement
VisitFunctionBody(body, inner) ==
    IF body.k = "IndentedBlock"
    THEN VisitIndentedBlock(
            body,
            [i \in 1..Len(body.body) |->
                IF body.body[i].k = "FunctionDef"
                THEN inner[Len(InnerFunctionDefs(body, i))]
                ELSE VisitSimpleStatementLine(body.body[i])])
    ELSE VisitBody(body)

Visit_leading_lines ==
    /\ frames # <<>>
    /\ Top.phase = "leading_lines"
    /\ \E lines \in {VisitEmptyLines(Top.node.leading_lines)} :
          /\ hook' = "leave_EmptyLine"
          /\ args' = [original_nodes |-> Top.node.leading_lines]
          /\ result' = FlattenSentinel(lines)
          /\ frames' = Replace([Top EXCEPT !.phase = "params", !.leading_lines = lines])
    /\ UNCHANGED codemod_state
    /\ UNCHANGED pass

Visit_Param ==
    /\ frames # <<>>
    /\ Top.phase = "params"
    /\ Len(Top.params) < Len(AllParams(Top.node.params))
    /\ \E original_node \in {AllParams(Top.node.params)[Len(Top.params) + 1]} :
       \E updated_node \in {[original_node EXCEPT !.whitespace_after =
                                VisitTrailingWhitespace(original_node.whitespace_after)]} :
       \E returned \in {leave_Param(original_node, updated_node)} :
          /\ hook' = "leave_Param"
          /\ args' = [original_node |-> original_node, updated_node |-> updated_node]
          /\ result' = returned
          /\ frames' = Replace([Top EXCEPT !.params = Append(Top.params, returned.nodes[1])])
    /\ UNCHANGED codemod_state
    /\ UNCHANGED pass

Enter_FunctionDef_body ==
    /\ frames # <<>>
    /\ Top.phase = "params"
    /\ Len(Top.params) = Len(AllParams(Top.node.params))
    /\ hook' = "visit_FunctionDef_body"
    /\ args' = [node |-> Top.node]
    /\ result' = NoResult
    /\ aggressively_strip_type_comments' =
           visit_FunctionDef_body(Top.node).aggressively_strip_type_comments
    /\ frames' = Replace([Top EXCEPT !.phase = "body"])
    /\ UNCHANGED <<function_type_info_stack, function_body_stack>>
    /\ UNCHANGED pass

\* a body statement whose hook raises ends the traversal where it is
Visit_FunctionDef_body ==
    /\ frames # <<>>
    /\ Top.phase = "body"
    /\ Len(Top.inner) = Len(InnerFunctionDefs(Top.node.body, Len(Top.node.body.body)))
    /\ \E body \in {VisitFunctionBody(Top.node.body, Top.inner)} :
          IF body.kind = "raise"
          THEN /\ hook' = "leave_SimpleStatementLine"
               /\ args' = [original_node |-> Top.node.body.body[1],
                           updated_node |-> UpdatedSimpleStatementLine(Top.node.body.body[1])]
               /\ result' = body
               /\ frames' = Replace([Top EXCEPT !.phase = "raised"])
          ELSE /\ hook' = "leave_IndentedBlock"
               /\ args' = [original_node |-> Top.node.body]
               /\ result' = body
               /\ frames' = Replace([Top EXCEPT !.phase = "leave", !.body = body.nodes[1]])
    /\ UNCHANGED codemod_state
    /\ UNCHANGED pass

Leave_FunctionDef ==
    /\ frames # <<>>
    /\ Top.phase = "leave"
    /\ \E updated_node \in {UpdatedFunctionDef(Top)} :
       \E left \in {leave_FunctionDef(Top.node, updated_node)} :
          /\ hook' = "leave_FunctionDef"
          /\ args' = [original_node |-> Top.node, updated_node |-> updated_node]
          /\ result' = left.result
          /\ function_type_info_stack' = left.function_type_info_stack
          /\ function_body_stack' = left.function_body_stack
          /\ frames' = IF Len(frames) = 1 THEN <<>>
                        ELSE Front(Front(frames))
                             \o <<[frames[Len(frames) - 1] EXCEPT
                                      !.inner = Append(@, left.result)]>>
    /\ UNCHANGED aggressively_strip_type_comments
    /\ UNCHANGED pass

\* the traversal goes on to the next statement of the module
Next_statement ==
    /\ hook = "leave_FunctionDef"
    /\ frames = <<>>
    /\ hook' = Idle
    /\ args' = <<>>
    /\ result' = NoResult
    /\ UNCHANGED <<codemod_state, frames>>
    /\ pass' = 1

NextFunction ==
    \/ Enter_FunctionDef
    \/ Visit_leading_lines
    \/ Visit_Param
    \/ Enter_FunctionDef_body
    \/ Visit_FunctionDef_body
    \/ Leave_FunctionDef
    \/ Next_statement

SpecFunction == Init /\ [][NextFunction]_vars

-----------------------------------------------------------------------------
(* The claims about function definitions, each an invariant of             *)
(* SpecFunction.                                                           *)

\* the payload of the inline type comment of a parameter, if it has one
InlineTypeComment(param) ==
    IF TokenizerTypeComment(param.whitespace_after.comment)
    THEN Some(TypeCommentPayload(param.whitespace_after.comment))
    ELSE None

\* the function-level type comment Python attaches to the def
FunctionTypeComment(node) == _ast_for_statement(node).type_comment
\* the argument types are the single placeholder `...`
EllipsisForm(argtypes) == Len(argtypes) = 1 /\ argtypes[1] = AstEllipsis

ParamName(node, i) == AllParams(node.params)[i].name.value
ParamNames(node) == {ParamName(node, i) : i \in 1..Len(AllParams(node.params))}

\* C8: leave_Param returns a Param that has an annotation unchanged, whatever
\* type comments there are for it, and leave_FunctionDef adds a return
\* annotation only to a function that has none.
C8_ExistingAnnotationKept ==
    /\ (hook = "leave_Param" /\ ~IsNone(args.original_node.annotation)) =>
          /\ result = Return(args.updated_node)
          /\ result.nodes[1].annotation = args.original_node.annotation
    /\ hook = "leave_FunctionDef" =>
          /\ result.kind = "node"
          /\ result.nodes[1].returns # args.updated_node.returns =>
                IsNone(args.original_node.returns)
          /\ ~IsNone(args.original_node.returns) =>
                /\ result = Return(args.updated_node)
                /\ result.nodes[1].returns = args.original_node.returns

\* `def fn(a: bool  # type: T` ... `) -> bool:  # type: (int) -> R` has been left
\* with both annotations as they were
C8_Witness ==
    /\ hook = "leave_FunctionDef"
    /\ ~IsNone(args.original_node.returns)
    /\ ~IsNone(from_cst(args.original_node).returns)
    /\ \E i \in 1..Len(AllParams(args.original_node.params)) :
          /\ ~IsNone(AllParams(args.original_node.params)[i].annotation)
          /\ ~IsNone(DictGet(from_cst(args.original_node).arguments,
                             ParamName(args.original_node, i)))
          /\ AllParams(result.nodes[1].params)[i].annotation
             = AllParams(args.original_node.params)[i].annotation
    /\ result.nodes[1].returns = args.original_node.returns

\* C9: a function whose function-level comment gives as many types as the
\* function has parameters
C9_Case ==
    /\ hook = "visit_FunctionDef"
    /\ ~IsNone(FunctionTypeComment(args.node))
    /\ AstParseFuncType(Get(FunctionTypeComment(args.node))).ok
    /\ ~EllipsisForm(AstParseFuncType(Get(FunctionTypeComment(args.node))).argtypes)
    /\ Len(AstParseFuncType(Get(FunctionTypeComment(args.node))).argtypes)
       = Len(AllParams(args.node.params))

C10_Function(node) ==
    /\ ~IsNone(FunctionTypeComment(node))
    /\ AstParseFuncType(Get(FunctionTypeComment(node))).ok
    /\ EllipsisForm(AstParseFuncType(Get(FunctionTypeComment(node))).argtypes)

\* C10: from a function-level comment `(...) -> R` only the return type R is
\* taken: from_cst gives every parameter its own inline type comment or none,
\* and leave_Param annotates a parameter only from its own inline type comment.
C10_EllipsisForm ==
    /\ (hook = "visit_FunctionDef" /\ C10_Function(args.node)) =>
          LET info == LastOf(function_type_info_stack) IN
          /\ info.returns =
                Some(AstUnparse(AstParseFuncType(Get(FunctionTypeComment(args.node))).returns))
          /\ DOMAIN info.arguments = ParamNames(args.node)
          /\ \A i \in 1..Len(AllParams(args.node.params)) :
                info.arguments[ParamName(args.node, i)]
                = InlineTypeComment(AllParams(args.node.params)[i])
    /\ (hook = "leave_Param" /\ C10_Function(Top.node)) =>
          /\ result.kind = "node"
          /\ result.nodes[1].annotation =
                IF ~IsNone(args.original_node.annotation) THEN args.original_node.annotation
                ELSE IF IsNone(InlineTypeComment(args.original_node)) THEN None
                ELSE Some(_convert_annotation(Get(InlineTypeComment(args.original_node))))

\* the one parameter of `def fn(a):  # type: (...) -> R` has been left without
\* an annotation
C10_Witness ==
    /\ hook = "leave_Param"
    /\ C10_Function(Top.node)
    /\ Len(AllParams(Top.node.params)) = 1
    /\ IsNone(args.original_node.annotation)
    /\ IsNone(InlineTypeComment(args.original_node))
    /\ IsNone(result.nodes[1].annotation)
    /\ LastOf(function_type_info_stack).returns = Some(<<"R">>)

-----------------------------------------------------------------------------
(* The parser and the code generator, on the part of the grammar the       *)
(* repository's tests spell out: names in parentheses (parse_expression),  *)
(* `global` statements (parse_statement) and modules made of them          *)
(* (parse_module).  Their code is not part of the sources at hand; the     *)
(* node fields are those nodes/tests/test_global.py constructs, and the    *)
(* text is a sequence of tokens: "global", " ", ",", "(", ")", "\n" and    *)
(* the names.                                                              *)

\* most spaces of one SimpleWhitespace
MaxWhitespace == 2
\* most names of one Global statement
MaxNames == 2
\* most parentheses on each side of a name
MaxParens == 2
\* most lines of one module
MaxLines == 3

NEWLINE == "\n"
NameTokens == {"a", "b"}

LeftParen(whitespace_after) == [k |-> "LeftParen", whitespace_after |-> whitespace_after]
RightParen(whitespace_before) == [k |-> "RightParen", whitespace_before |-> whitespace_before]
\* cst.Name(value, lpar=..., rpar=...)
ParenthesizedName(value, lpar, rpar) ==
    [k |-> "Name", value |-> value, lpar |-> lpar, rpar |-> rpar]
Comma(whitespace_before, whitespace_after) ==
    [k |-> "Comma", whitespace_before |-> whitespace_before,
     whitespace_after |-> whitespace_after]
\* MaybeSentinel.DEFAULT where a node is expected: the code generator decides
DefaultComma == [k |-> "MaybeSentinel.DEFAULT"]
\* comma is DefaultComma or a Comma
NameItem(name, comma) == [k |-> "NameItem", name |-> name, comma |-> comma]
Global(names, whitespace_after_global) ==
    [k |-> "Global", names |-> names, whitespace_after_global |-> whitespace_after_global]
\* cst.Newline(value): None is the module's default newline
Newline(value) == [k |-> "Newline", value |-> value]
\* a TrailingWhitespace together with the Newline that ends it
LineEnd(whitespace, newline) ==
    [k |-> "TrailingWhitespace", whitespace |-> whitespace, comment |-> None,
     newline |-> newline]
StatementLine(body, trailing_whitespace) ==
    [k |-> "SimpleStatementLine", leading_lines |-> <<>>, body |-> body,
     trailing_whitespace |-> trailing_whitespace]
Module(body, has_trailing_newline) ==
    [k |-> "Module", body |-> body, has_trailing_newline |-> has_trailing_newline]

(* The code generator: each node writes its semantic and formatting        *)
(* children in a fixed order.                                              *)

LeftParen_codegen(node) == <<"(">> \o node.whitespace_after
RightParen_codegen(node) == node.whitespace_before \o <<")">>

RECURSIVE CodegenAll(_, _)
\* the texts of the nodes of a sequence, one after the other
CodegenAll(nodes, kind) ==
    IF Len(nodes) = 0 THEN <<>>
    ELSE (IF kind = "LeftParen" THEN LeftParen_codegen(Head(nodes))
          ELSE RightParen_codegen(Head(nodes)))
         \o CodegenAll(Tail(nodes), kind)

Name_codegen(node) ==
    CodegenAll(node.lpar, "LeftParen") \o node.value \o CodegenAll(node.rpar, "RightParen")

Comma_codegen_without_whitespace_before(node) == <<",">> \o node.whitespace_after

Comma_codegen(node) == node.whitespace_before \o <<",">> \o node.whitespace_after

\* a default comma is written as ", " where one is needed and not at all after
\* the last item
NameItem_codegen(node, default_comma) ==
    Name_codegen(node.name)
    \o (IF node.comma = DefaultComma
        THEN (IF default_comma THEN <<",", " ">> ELSE <<>>)
        ELSE Comma_codegen(node.comma))

RECURSIVE NameItems_codegen(_)
NameItems_codegen(names) ==
    IF Len(names) = 0 THEN <<>>
    ELSE NameItem_codegen(Head(names), Len(names) > 1) \o NameItems_codegen(Tail(names))

Global_codegen(node) ==
    <<"global">> \o node.whitespace_after_global \o NameItems_codegen(node.names)

Newline_codegen(node) == IF IsNone(node.value) THEN <<NEWLINE>> ELSE <<Get(node.value)>>

SimpleStatementLine_codegen(node) ==
    Global_codegen(node.body[1]) \o node.trailing_whitespace.whitespace
    \o Newline_codegen(node.trailing_whitespace.newline)

RECURSIVE Lines_codegen(_)
Lines_codegen(body) ==
    IF Len(body) = 0 THEN <<>>
    ELSE SimpleStatementLine_codegen(Head(body)) \o Lines_codegen(Tail(body))

\* Module([]).code_for_node(node)
code_for_node(node) ==
    IF node.k = "Name" THEN Name_codegen(node)
    ELSE IF node.k = "Global" THEN Global_codegen(node)
    ELSE SimpleStatementLine_codegen(node)

\* Module.code: the lines, less the last newline when the text had none
Module_code(self) ==
    LET code == Lines_codegen(self.body) IN
    IF self.has_trailing_newline \/ Len(code) = 0 THEN code
    ELSE SubSeq(code, 1, Len(code) - 1)

(* The parser: recursive descent over the tokens.  A parse gives           *)
(* [ok, node, next], next being the first token not consumed.              *)

ParserSyntaxError == "ParserSyntaxError"

RECURSIVE WhitespaceEnd(_, _)
\* the first position at or after i that holds no space
WhitespaceEnd(toks, i) ==
    IF i <= Len(toks) /\ toks[i] = " " THEN WhitespaceEnd(toks, i + 1) ELSE i

TokenAt(toks, i) == IF i <= Len(toks) THEN toks[i] ELSE "ENDMARKER"

RECURSIVE ParseParenthesizedName(_, _)
\* atom: NAME | '(' atom ')', the whitespace inside a pair of parentheses
\* owned by the parentheses
ParseParenthesizedName(toks, i) ==
    IF TokenAt(toks, i) \in NameTokens
    THEN ParseOk(ParenthesizedName(<<toks[i]>>, <<>>, <<>>), i + 1)
    ELSE IF TokenAt(toks, i) = "(" THEN
        LET a == WhitespaceEnd(toks, i + 1)
            r == ParseParenthesizedName(toks, a)
            b == WhitespaceEnd(toks, r.next)
        IN  IF r.ok /\ TokenAt(toks, b) = ")"
            THEN ParseOk(ParenthesizedName(
                            r.node.value,
                            <<LeftParen(SubSeq(toks, i + 1, a - 1))>> \o r.node.lpar,
                            Append(r.node.rpar, RightParen(SubSeq(toks, r.next, b - 1)))),
                         b + 1)
            ELSE ParseFail
    ELSE ParseFail

RECURSIVE ParseNameItems(_, _, _)
\* NAME (',' NAME)*: no parentheses, no trailing comma; the whitespace around
\* a comma is the comma's
ParseNameItems(toks, i, acc) ==
    IF TokenAt(toks, i) \notin NameTokens THEN ParseFail
    ELSE LET name == ParenthesizedName(<<toks[i]>>, <<>>, <<>>)
             c == WhitespaceEnd(toks, i + 1)
         IN  IF TokenAt(toks, c) = ","
             THEN LET n == WhitespaceEnd(toks, c + 1) IN
                  ParseNameItems(toks, n,
                      Append(acc, NameItem(name, Comma(SubSeq(toks, i + 1, c - 1),
                                                       SubSeq(toks, c + 1, n - 1)))))
             ELSE ParseOk(Append(acc, NameItem(name, DefaultComma)), i + 1)

\* global_stmt: 'global' NAME (',' NAME)* with at least one space after the
\* keyword
ParseGlobal(toks, i) ==
    IF TokenAt(toks, i) # "global" THEN ParseFail
    ELSE LET n == WhitespaceEnd(toks, i + 1)
             r == ParseNameItems(toks, n, <<>>)
         IN  IF n > i + 1 /\ r.ok
             THEN ParseOk(Global(r.node, SubSeq(toks, i + 1, n - 1)), r.next)
             ELSE ParseFail

\* one statement, the whitespace after it and the newline that ends the line
ParseSimpleStatementLine(toks, i) ==
    LET r == ParseGlobal(toks, i)
        e == WhitespaceEnd(toks, r.next)
    IN  IF r.ok /\ TokenAt(toks, e) = NEWLINE
        THEN ParseOk(StatementLine(<<r.node>>,
                                   LineEnd(SubSeq(toks, r.next, e - 1),
                                           Newline(Some(NEWLINE)))),
                     e + 1)
        ELSE ParseFail

RECURSIVE ParseLines(_, _, _)
\* file_input: statement lines up to the end of the text
ParseLines(toks, i, acc) ==
    IF i > Len(toks) THEN ParseOk(acc, i)
    ELSE LET r == ParseSimpleStatementLine(toks, i) IN
         IF r.ok THEN ParseLines(toks, r.next, Append(acc, r.node)) ELSE ParseFail

EndsWithNewline(source) == Len(source) > 0 /\ source[Len(source)] = NEWLINE

\* parse_module(source): text that does not end in a newline is parsed as if
\* it did, and the Module notes that it did not
parse_module(source) ==
    LET toks == IF EndsWithNewline(source) \/ Len(source) = 0 THEN source
                ELSE Append(source, NEWLINE)
        r == ParseLines(toks, 1, <<>>)
    IN  IF r.ok THEN Return(Module(r.node, EndsWithNewline(source)))
        ELSE Raise(ParserSyntaxError)

\* parse_statement(source): one statement followed by its trailing newline;
\* a newline is added if the text has none; nothing may follow the newline
parse_statement(source) ==
    LET toks == IF EndsWithNewline(source) THEN source ELSE Append(source, NEWLINE)
        r == ParseSimpleStatementLine(toks, 1)
    IN  IF r.ok /\ r.next = Len(toks) + 1 THEN Return(r.node)
        ELSE Raise(ParserSyntaxError)

\* parse_expression(source): one expression; whitespace before or after it
\* has no node to live in and is not accepted
parse_expression(source) ==
    LET r == ParseParenthesizedName(source, 1) IN
    IF r.ok /\ r.next = Len(source) + 1 THEN Return(r.node)
    ELSE Raise(ParserSyntaxError)

(* The texts handed to the parser: what a grammar-driven generator writes  *)
(* for these productions, and texts near them that are not valid.          *)

RECURSIVE Spaces(_)
Spaces(n) == IF n = 0 THEN <<>> ELSE <<" ">> \o Spaces(n - 1)
WhitespaceInputs == {Spaces(n) : n \in 0..MaxWhitespace}

RECURSIVE LeftParenTexts(_)
RECURSIVE RightParenTexts(_)
\* n opening, or closing, parentheses with the whitespace inside them
LeftParenTexts(n) ==
    IF n = 0 THEN {<<>>}
    ELSE {<<"(">> \o ws \o rest : ws \in WhitespaceInputs, rest \in LeftParenTexts(n - 1)}
RightParenTexts(n) ==
    IF n = 0 THEN {<<>>}
    ELSE {ws \o <<")">> \o rest : ws \in WhitespaceInputs, rest \in RightParenTexts(n - 1)}

\* as test_fuzz.py draws them, stripped or not
ExpressionInputs ==
    {before \o lpar \o <<name>> \o rpar \o after :
        before \in {<<>>, <<" ">>}, after \in {<<>>, <<" ">>}, name \in NameTokens,
        lpar \in UNION {LeftParenTexts(n) : n \in 0..MaxParens},
        rpar \in UNION {RightParenTexts(n) : n \in 0..MaxParens}}

RECURSIVE NameItemsTexts(_)
\* n names with commas between them; a name in parentheses is not valid here
NameItemsTexts(n) ==
    IF n = 0 THEN {<<>>}
    ELSE IF n = 1 THEN {<<"a">>, <<"b">>, <<"(", "a", ")">>}
    ELSE {<<name>> \o before \o <<",">> \o after \o rest :
            name \in NameTokens, before \in WhitespaceInputs, after \in WhitespaceInputs,
            rest \in NameItemsTexts(n - 1)}

GlobalTexts(most) ==
    {<<"global">> \o ws \o names \o comma :
        ws \in WhitespaceInputs, comma \in {<<>>, <<",">>},
        names \in UNION {NameItemsTexts(n) : n \in 0..most}}

\* as test_fuzz.py and test_global.py draw them, with the newline or without
StatementInputs ==
    {text \o ws \o newline :
        text \in GlobalTexts(MaxNames), ws \in {<<>>, <<" ">>},
        newline \in {<<>>, <<NEWLINE>>, <<NEWLINE, NEWLINE>>}}

ModuleLineInputs ==
    {<<"global", " ", name>> \o ws \o newline :
        name \in NameTokens, ws \in {<<>>, <<" ">>}, newline \in {<<>>, <<NEWLINE>>}}

RECURSIVE ModuleTexts(_)
ModuleTexts(n) ==
    IF n = 0 THEN {<<>>}
    ELSE {line \o rest : line \in ModuleLineInputs, rest \in ModuleTexts(n - 1)}

ModuleInputs == UNION {ModuleTexts(n) : n \in 0..MaxLines}

(* A run of the round-trip tests: a text is parsed through one of the      *)
(* three entry points and, if the parser accepts it, the tree is rendered. *)

Code(code) == [kind |-> "code", nodes |-> <<>>, exc |-> "none", code |-> code]

Call_parse_module ==
    /\ hook = Idle
    /\ \E source \in ModuleInputs :
          /\ hook' = "parse_module"
          /\ args' = [source |-> source]
          /\ result' = parse_module(source)
    /\ UNCHANGED <<codemod_state, frames>>
    /\ UNCHANGED pass

Call_parse_statement ==
    /\ hook = Idle
    /\ \E source \in StatementInputs :
          /\ hook' = "parse_statement"
          /\ args' = [source |-> source]
          /\ result' = parse_statement(source)
    /\ UNCHANGED <<codemod_state, frames>>
    /\ UNCHANGED pass

Call_parse_expression ==
    /\ hook = Idle
    /\ \E source \in ExpressionInputs :
          /\ hook' = "parse_expression"
          /\ args' = [source |-> source]
          /\ result' = parse_expression(source)
    /\ UNCHANGED <<codemod_state, frames>>
    /\ UNCHANGED pass

\* tree.code of a parsed module
Call_Module_code ==
    /\ hook = "parse_module"
    /\ result.kind = "node"
    /\ hook' = "code"
    /\ args' = [source |-> args.source, parser |-> hook, tree |-> result.nodes[1]]
    /\ result' = Code(Module_code(result.nodes[1]))
    /\ UNCHANGED <<codemod_state, frames>>
    /\ UNCHANGED pass

\* Module([]).code_for_node(tree) of a parsed statement or expression
Call_code_for_node ==
    /\ hook \in {"parse_statement", "parse_expression"}
    /\ result.kind = "node"
    /\ hook' = "code"
    /\ args' = [source |-> args.source, parser |-> hook, tree |-> result.nodes[1]]
    /\ result' = Code(code_for_node(result.nodes[1]))
    /\ UNCHANGED <<codemod_state, frames>>
    /\ UNCHANGED pass

\* the test goes on to its next text, after the rendering or after the
\* parser's error
Next_source ==
    /\ \/ hook = "code"
       \/ hook \in {"parse_module", "parse_statement", "parse_expression"}
          /\ result.kind = "raise"
    /\ hook' = Idle
    /\ args' = <<>>
    /\ result' = NoResult
    /\ UNCHANGED <<codemod_state, frames>>
    /\ pass' = 1

NextRoundTrip ==
    \/ Call_parse_module
    \/ Call_parse_statement
    \/ Call_parse_expression
    \/ Call_Module_code
    \/ Call_code_for_node
    \/ Next_source

SpecRoundTrip == Init /\ [][NextRoundTrip]_vars

-----------------------------------------------------------------------------
(* The round trip, an invariant of SpecRoundTrip.                          *)

-----------------------------------------------------------------------------
(* Functions whose function-level comment does not fit their parameters,   *)
(* invariants of SpecFunction.                                             *)

\* the function-level comment of the def as ast.parse(.., "func_type") reads it
FuncTypeOf(node) == AstParseFuncType(Get(FunctionTypeComment(node)))

\* C11: a function whose function-level comment decodes, is not of the form
\* `(...) -> R`, and gives another number of types than the function has
\* parameters
C11_Function(node) ==
    /\ ~IsNone(FunctionTypeComment(node))
    /\ FuncTypeOf(node).ok
    /\ ~EllipsisForm(FuncTypeOf(node).argtypes)
    /\ Len(FuncTypeOf(node).argtypes) # Len(AllParams(node.params))

\* C11 as stated: when the function-level comment's argument types are neither
\* the ellipsis nor as many as the parameters, the return type of the comment
\* is still honored: a function without return annotation gets it.
C11_ReturnTypeHonored ==
    (/\ hook = "leave_FunctionDef"
     /\ C11_Function(args.original_node)
     /\ IsNone(args.original_node.returns))
    => result.nodes[1].returns
       = Some(_convert_annotation(AstUnparse(FuncTypeOf(args.original_node).returns)))

\* C11 amended: when the function-level comment's argument types are neither
\* the ellipsis nor as many as the parameters, its argument types and its
\* return type are both discarded: the FunctionTypeInfo is empty, no parameter
\* is annotated and the function gets no return annotation.
C11_MismatchDiscardsReturnType ==
    /\ (hook = "visit_FunctionDef" /\ C11_Function(args.node)) =>
          LastOf(function_type_info_stack) = FunctionTypeInfo(EmptyDict, None)
    /\ (hook = "leave_Param" /\ C11_Function(Top.node)) =>
          result = Return(args.updated_node)
    /\ (hook = "leave_FunctionDef" /\ C11_Function(args.original_node)) =>
          /\ result = Return(args.updated_node)
          /\ result.nodes[1].returns = args.original_node.returns

\* `def fn(a):  # type: (int, str) -> R` has been left without a return
\* annotation
C11_Witness ==
    /\ hook = "leave_FunctionDef"
    /\ C11_Function(args.original_node)
    /\ Len(AllParams(args.original_node.params)) = 1
    /\ Len(FuncTypeOf(args.original_node).argtypes) = 2
    /\ FuncTypeOf(args.original_node).returns = AstName("R")
    /\ IsNone(args.original_node.returns)
    /\ IsNone(result.nodes[1].returns)

\* C12: a function whose function-level comment cannot be decoded, or decodes,
\* is not of the form `(...) -> R` and gives another number of types than the
\* function has parameters
C12_Function(node) ==
    /\ ~IsNone(FunctionTypeComment(node))
    /\ \/ ~FuncTypeOf(node).ok
       \/ C11_Function(node)

\* the type comments of the function itself: before the def, after the
\* parameters, in the header of the body and before its first statement
FunctionCommentsKept(original_node, updated_node) ==
    /\ updated_node.leading_lines = original_node.leading_lines
    /\ Len(AllParams(updated_node.params)) = Len(AllParams(original_node.params))
    /\ \A i \in 1..Len(AllParams(original_node.params)) :
          AllParams(updated_node.params)[i].whitespace_after
          = AllParams(original_node.params)[i].whitespace_after
    /\ IF original_node.body.k = "IndentedBlock"
       THEN /\ updated_node.body.header = original_node.body.header
            /\ updated_node.body.body[1].leading_lines
               = original_node.body.body[1].leading_lines
       ELSE updated_node.body = original_node.body

\* C12: for a function whose function-level comment cannot be decoded or does
\* not fit the number of its parameters the transform is skipped: no type
\* information is recorded, no parameter and no return annotation is added,
\* and no type comment of the function, the inline comments of the parameters
\* included, is stripped.
C12_MismatchSkipsFunction ==
    /\ (hook = "visit_FunctionDef" /\ C12_Function(args.node)) =>
          /\ is_empty(LastOf(function_type_info_stack))
          /\ ~aggressively_strip_type_comments
    /\ (hook = "leave_EmptyLine" /\ C12_Function(Top.node)) =>
          result.nodes = Top.node.leading_lines
    /\ (hook = "leave_Param" /\ C12_Function(Top.node)) =>
          result = Return(args.original_node)
    /\ (hook = "leave_FunctionDef" /\ C12_Function(args.original_node)) =>
          /\ result.kind = "node"
          /\ result.nodes[1].params = args.original_node.params
          /\ result.nodes[1].returns = args.original_node.returns
          /\ FunctionCommentsKept(args.original_node, result.nodes[1])

\* `def fn(a  # type: T` / `):  # type: (int, str) -> R` has been left with its
\* comments and without annotations
C12_Witness ==
    /\ hook = "leave_FunctionDef"
    /\ C11_Function(args.original_node)
    /\ IsNone(args.original_node.returns)
    /\ Len(AllParams(args.original_node.params)) = 1
    /\ IsNone(AllParams(args.original_node.params)[1].annotation)
    /\ InlineTypeComment(AllParams(args.original_node.params)[1]) = Some(<<InlineTypeName(1)>>)
    /\ result.nodes[1] = args.original_node

-----------------------------------------------------------------------------
(* The transform on statements and on function definitions alike: the      *)
(* traversal of a module whose statements are the statement inputs and the *)
(* function inputs.                                                        *)

NextTransform ==
    \/ Call_annotated_bindings
    \/ Visit_SimpleStatementLine
    \/ Visit_For
    \/ Visit_With
    \/ Continue
    \/ Enter_FunctionDef
    \/ Visit_leading_lines
    \/ Visit_Param
    \/ Enter_FunctionDef_body
    \/ Visit_FunctionDef_body
    \/ Leave_FunctionDef
    \/ Next_statement

SpecTransform == Init /\ [][NextTransform]_vars

\* no line of the sequence holds a type comment
NoTypeComments(lines) ==
    \A i \in 1..Len(lines) : ~TokenizerTypeComment(lines[i].comment)

\* the result of leave_FunctionDef has an annotation the function did not have
AnnotationAdded(original_node, updated_node) ==
    \/ updated_node.returns # original_node.returns
    \/ \E i \in 1..Len(AllParams(original_node.params)) :
          AllParams(updated_node.params)[i].annotation
          # AllParams(original_node.params)[i].annotation

\* no type comment is left in the header of the def, in the header of its body
\* and before the first statement of the body
FunctionCommentsStripped(node) ==
    /\ NoTypeComments(node.leading_lines)
    /\ \A i \in 1..Len(AllParams(node.params)) :
          ~TokenizerTypeComment(AllParams(node.params)[i].whitespace_after.comment)
    /\ IF node.body.k = "IndentedBlock"
       THEN /\ ~TokenizerTypeComment(node.body.header.comment)
            /\ NoTypeComments(node.body.body[1].leading_lines)
       ELSE ~TokenizerTypeComment(node.body.trailing_whitespace.comment)

\* C13: whenever the content of a type comment has been applied as an
\* annotation, the comment is gone from the transformed statement: from the
\* end of the Assign line, from the header of the body of the For or With, and
\* for a function from its header, the header of its body and the leading
\* lines of the first statement of the body.
C13_AppliedCommentStripped ==
    /\ (/\ hook = "leave_SimpleStatementLine"
        /\ result.kind \in {"node", "flatten"}
        /\ result # Return(args.updated_node)) =>
          \A i \in 1..Len(result.nodes) : IsNone(result.nodes[i].trailing_whitespace.comment)
    /\ (hook \in {"leave_For", "leave_With"} /\ result.kind = "flatten") =>
          /\ \A i \in 1..(Len(result.nodes) - 1) :
                IsNone(result.nodes[i].trailing_whitespace.comment)
          /\ IsNone(LastOf(result.nodes).body.header.comment)
    /\ (/\ hook = "leave_FunctionDef"
        /\ AnnotationAdded(args.original_node, result.nodes[1])) =>
          FunctionCommentsStripped(result.nodes[1])

\* `def fn(a):` with `# type: (int) -> R` on the first line of the body has been
\* left with both annotations and without the comment
C13_Witness ==
    /\ hook = "leave_FunctionDef"
    /\ args.original_node.body.k = "IndentedBlock"
    /\ ~NoTypeComments(args.original_node.body.body[1].leading_lines)
    /\ IsNone(args.original_node.returns)
    /\ result.nodes[1].returns = Some(_convert_annotation(<<"R">>))
    /\ AllParams(result.nodes[1].params)[1].annotation = Some(_convert_annotation(<<"int">>))
    /\ FunctionCommentsStripped(result.nodes[1])

\* the result holds an annotated assignment or a type declaration of the target
Annotated(nodes, target) ==
    \E i \in 1..Len(nodes) :
        /\ nodes[i].k = "SimpleStatementLine"
        /\ \E j \in 1..Len(nodes[i].body) :
               /\ nodes[i].body[j].k = "AnnAssign"
               /\ nodes[i].body[j].target = target

\* every name bound by the statement is annotated in the result
BindingsAnnotated(node, nodes) ==
    \A i \in 1..Len(BindingTargets(node)) :
        LET leaves == Leaves(unpack_target(BindingTargets(node)[i])) IN
        \A j \in 1..Len(leaves) : Annotated(nodes, leaves[j])

\* the type comment of an Assign, For or With is gone from the result of its
\* leave_ hook
StatementCommentRemoved ==
    /\ hook \in {"leave_SimpleStatementLine", "leave_For", "leave_With"}
    /\ result.kind \in {"node", "flatten"}
    /\ TokenizerTypeComment(StatementComment(args.original_node))
    /\ StatementComment(LastOf(result.nodes)) # StatementComment(args.original_node)

\* C14 for Assign, For and With: the type comment of the statement is removed
\* only together with the annotations made from it.
C14_StatementStrippedOnlyIfApplied ==
    StatementCommentRemoved => BindingsAnnotated(args.original_node, result.nodes)

\* C14 for the inline type comment of a parameter: it is removed only if its
\* type is the annotation of the parameter in the result of leave_FunctionDef.
C14_InlineStrippedOnlyIfApplied ==
    hook = "leave_FunctionDef" =>
        \A i \in 1..Len(AllParams(args.original_node.params)) :
            LET original == AllParams(args.original_node.params)[i]
                updated == AllParams(result.nodes[1].params)[i]
            IN (/\ ~IsNone(InlineTypeComment(original))
                /\ updated.whitespace_after.comment # original.whitespace_after.comment) =>
                   updated.annotation
                   = Some(_convert_annotation(Get(InlineTypeComment(original))))

\* C14 for the function-level type comment: it is removed only if its return
\* type is the return annotation of the result of leave_FunctionDef and, unless
\* its argument types are `...`, its argument types are the annotations of the
\* parameters.
C14_FunctionLevelStrippedOnlyIfApplied ==
    (/\ hook = "leave_FunctionDef"
     /\ ~IsNone(FunctionTypeComment(args.original_node))
     /\ IsNone(FunctionTypeComment(result.nodes[1]))) =>
        /\ FuncTypeOf(args.original_node).ok
        /\ result.nodes[1].returns
           = Some(_convert_annotation(AstUnparse(FuncTypeOf(args.original_node).returns)))
        /\ ~EllipsisForm(FuncTypeOf(args.original_node).argtypes) =>
              /\ Len(FuncTypeOf(args.original_node).argtypes)
                 = Len(AllParams(args.original_node.params))
              /\ \A i \in 1..Len(AllParams(args.original_node.params)) :
                    AllParams(result.nodes[1].params)[i].annotation
                    = Some(_convert_annotation(
                               AstUnparse(FuncTypeOf(args.original_node).argtypes[i])))

\* C14: a type comment is never stripped for a statement where its type was
\* not applied: if the transform removes a type comment of an Assign, For,
\* With or FunctionDef, the type the comment carried is an annotation in the
\* output of that statement.
C14_StrippedOnlyIfApplied ==
    /\ C14_StatementStrippedOnlyIfApplied
    /\ C14_InlineStrippedOnlyIfApplied
    /\ C14_FunctionLevelStrippedOnlyIfApplied

\* the same read statement by statement: a function that got no annotation
\* keeps its type comments
C14_NothingAppliedNothingStripped ==
    (/\ hook = "leave_FunctionDef"
     /\ ~AnnotationAdded(args.original_node, result.nodes[1])) =>
        FunctionCommentsKept(args.original_node, result.nodes[1])

-----------------------------------------------------------------------------
(* The codemod run a second time, on the statements the first run gave.    *)

\* the step of the traversal on a For or With: the leave_ hook of the node,
\* or the hook of the statement of its body that raised
VisitCompound(node, body) ==
    IF body.kind = "raise"
    THEN [hook |-> "leave_SimpleStatementLine",
          args |-> [original_node |-> node.body.body[1],
                    updated_node |-> UpdatedSimpleStatementLine(node.body.body[1])],
          result |-> body]
    ELSE [hook |-> IF node.k = "For" THEN "leave_For" ELSE "leave_With",
          args |-> [original_node |-> node,
                    updated_node |-> UpdatedCompound(node, body.nodes[1])],
          result |-> IF node.k = "For"
                     THEN leave_For(node, UpdatedCompound(node, body.nodes[1]))
                     ELSE leave_With(node, UpdatedCompound(node, body.nodes[1]))]

\* the step of the traversal on a SimpleStatementLine, For or With
VisitStatement(node) ==
    IF node.k = "SimpleStatementLine"
    THEN [hook |-> "leave_SimpleStatementLine",
          args |-> [original_node |-> node,
                    updated_node |-> UpdatedSimpleStatementLine(node)],
          result |-> VisitSimpleStatementLine(node)]
    ELSE VisitCompound(node, VisitBody(node.body))

\* a statement of the output of leave_SimpleStatementLine, leave_For or
\* leave_With is visited by a second run of the codemod
Visit_output ==
    /\ hook \in StatementHooks
    /\ frames = <<>>
    /\ pass = 1
    /\ result.kind \in {"node", "flatten"}
    /\ \E i \in 1..Len(result.nodes) : \E visited \in {VisitStatement(result.nodes[i])} :
          /\ hook' = visited.hook
          /\ args' = visited.args
          /\ result' = visited.result
    /\ pass' = 2
    /\ UNCHANGED <<codemod_state, frames>>

\* the FunctionDef leave_FunctionDef returned is entered by a second run of
\* the codemod
Enter_FunctionDef_output ==
    /\ hook = "leave_FunctionDef"
    /\ frames = <<>>
    /\ pass = 1
    /\ result.kind = "node"
    /\ \E node \in {result.nodes[1]} : \E entered \in {visit_FunctionDef(node)} :
          /\ hook' = "visit_FunctionDef"
          /\ args' = [node |-> node]
          /\ result' = NoResult
          /\ aggressively_strip_type_comments' = entered.aggressively_strip_type_comments
          /\ function_type_info_stack' = entered.function_type_info_stack
          /\ function_body_stack' = entered.function_body_stack
          /\ frames' = <<Frame(node)>>
    /\ pass' = 2

NextTwice ==
    \/ Call_annotated_bindings
    \/ Visit_SimpleStatementLine
    \/ Visit_For
    \/ Visit_With
    \/ Continue
    \/ Enter_FunctionDef
    \/ Visit_leading_lines
    \/ Visit_Param
    \/ Enter_FunctionDef_body
    \/ Visit_FunctionDef_body
    \/ Leave_FunctionDef
    \/ Next_statement
    \/ Visit_output
    \/ Enter_FunctionDef_output

SpecTwice == Init /\ [][NextTwice]_vars

\* C15: idempotence: the codemod run on its own output changes nothing: in
\* the second run every hook of a statement returns the statement it got, and
\* no hook raises.
C15_Idempotent ==
    pass = 2 =>
        /\ result.kind # "raise"
        /\ (frames = <<>> /\ hook \in StatementHooks \cup {"leave_FunctionDef"}) =>
              result.nodes = <<args.original_node>>

\* C15 for the statements outside functions
C15_StatementsIdempotent ==
    (pass = 2 /\ frames = <<>> /\ hook \in StatementHooks) =>
        result.nodes = <<args.original_node>>

-----------------------------------------------------------------------------
(* _convert_annotation on raw annotation texts.                            *)

MaxRawTokens == 3
RawTokens == {"int", "str", "Int", "T", "[", "]", ",", " ", "\""}
RawInputs == UNION {[1..n -> RawTokens] : n \in 0..MaxRawTokens}

Call__convert_annotation ==
    /\ hook = Idle
    /\ \E raw \in RawInputs :
          /\ hook' = "_convert_annotation"
          /\ args' = [raw |-> raw]
          /\ result' = Return(_convert_annotation(raw))
    /\ UNCHANGED <<codemod_state, frames, pass>>

NextAnnotation ==
    \/ Call__convert_annotation
    \/ Continue

SpecAnnotation == Init /\ [][NextAnnotation]_vars

\* C16: _convert_annotation(raw) is the unquoted Name raw if and only if raw
\* is exactly the name of a builtin; for every other raw text it is the string
\* literal of raw between double quotes.
C16_QuotedUnlessBuiltin ==
    hook = "_convert_annotation" =>
        /\ result.kind = "node"
        /\ result.nodes[1].k = "Annotation"
        /\ result.nodes[1].annotation.k = "Name"
           <=> (Len(args.raw) = 1 /\ args.raw[1] \in _builtins)
        /\ IF Len(args.raw) = 1 /\ args.raw[1] \in _builtins
           THEN result.nodes[1].annotation = Name(args.raw)
           ELSE result.nodes[1].annotation
                = SimpleString(<<"\"">> \o args.raw \o <<"\"">>)

\* `int[T]` has become the string "int[T]"
C16_Witness ==
    /\ hook = "_convert_annotation"
    /\ args.raw = <<"int", "[", "T">>
    /\ result.nodes[1].annotation = SimpleString(<<"\"", "int", "[", "T", "\"">>)

-----------------------------------------------------------------------------
(* Functions defined inside functions.                                     *)

MaxDepth == 3

\* def fn(a): pass, with and without an inline and a function-level comment
InnermostInputs ==
    {FunctionDef(<<>>,
                 Parameters(<<>>,
                            <<Param(Name(<<"a">>), None, "",
                                    TrailingWhitespace(<<"  ">>, comment))>>,
                            None, <<>>, None),
                 None, PassBody(header)) :
        comment \in {None, TypeComment(<<"T">>)},
        header \in {None, TypeComment(FuncTypeText(<<"int">>)), MismatchedComment}}

InnerSibling ==
    FunctionDef(<<>>,
                Parameters(<<>>,
                           <<Param(Name(<<"b">>), None, "", DefaultTrailingWhitespace)>>,
                           None, <<>>, None),
                None, PassBody(TypeComment(FuncTypeText(<<"str">>))))

\* def fn(a): with the statements for its body
OuterFunctionDef(header, statements) ==
    FunctionDef(<<>>,
                Parameters(<<>>,
                           <<Param(Name(<<"a">>), None, "", DefaultTrailingWhitespace)>>,
                           None, <<>>, None),
                None, IndentedBlock(TrailingWhitespace(<<"  ">>, header), statements))

\* the functions with up to depth functions inside one another
RECURSIVE NestedInputs(_)
NestedInputs(depth) ==
    IF depth <= 1 THEN InnermostInputs
    ELSE NestedInputs(depth - 1)
         \cup {OuterFunctionDef(header, statements) :
                  header \in {None, TypeComment(FuncTypeText(<<"int">>))},
                  statements \in UNION {{<<inner>>, <<PassLine, inner, InnerSibling>>} :
                                           inner \in NestedInputs(depth - 1)}}

Enter_nesting_FunctionDef ==
    /\ hook = Idle
    /\ frames = <<>>
    /\ \E node \in NestedInputs(MaxDepth) : \E entered \in {visit_FunctionDef(node)} :
          /\ hook' = "visit_FunctionDef"
          /\ args' = [node |-> node]
          /\ result' = NoResult
          /\ aggressively_strip_type_comments' = entered.aggressively_strip_type_comments
          /\ function_type_info_stack' = entered.function_type_info_stack
          /\ function_body_stack' = entered.function_body_stack
          /\ frames' = <<Frame(node)>>
    /\ UNCHANGED pass

\* the next FunctionDef among the statements of the body is entered
Enter_inner_FunctionDef ==
    /\ frames # <<>>
    /\ Top.phase = "body"
    /\ Len(Top.inner) < Len(InnerFunctionDefs(Top.node.body, Len(Top.node.body.body)))
    /\ \E node \in {InnerFunctionDefs(Top.node.body,
                                      Len(Top.node.body.body))[Len(Top.inner) + 1]} :
       \E entered \in {visit_FunctionDef(node)} :
          /\ hook' = "visit_FunctionDef"
          /\ args' = [node |-> node]
          /\ result' = NoResult
          /\ aggressively_strip_type_comments' = entered.aggressively_strip_type_comments
          /\ function_type_info_stack' = entered.function_type_info_stack
          /\ function_body_stack' = entered.function_body_stack
          /\ frames' = Append(frames, Frame(node))
    /\ UNCHANGED pass

NextNested ==
    \/ Enter_nesting_FunctionDef
    \/ Enter_inner_FunctionDef
    \/ Enter_FunctionDef
    \/ Visit_leading_lines
    \/ Visit_Param
    \/ Enter_FunctionDef_body
    \/ Visit_FunctionDef_body
    \/ Leave_FunctionDef
    \/ Next_statement

SpecNested == Init /\ [][NextNested]_vars

\* C17: at every point of a traversal the two stacks are as long as the
\* FunctionDefs entered and not yet left are many, and hold, outermost first,
\* the FunctionTypeInfo and the body of each of them; so they are back at the
\* contents they had before a FunctionDef once it is left, and empty when no
\* FunctionDef is open.
C17_StacksFollowTraversal ==
    /\ Len(function_type_info_stack) = Len(frames)
    /\ Len(function_body_stack) = Len(frames)
    /\ \A i \in 1..Len(frames) :
          /\ function_type_info_stack[i] = from_cst(frames[i].node)
          /\ function_body_stack[i] = frames[i].node.body
    /\ frames = <<>> => function_type_info_stack = <<>> /\ function_body_stack = <<>>

\* C17 step by step: leaving a FunctionDef gives the stacks the contents they
\* had when it was entered
C17_StacksRestored ==
    [][hook' = "leave_FunctionDef" =>
           /\ function_type_info_stack' = Front(function_type_info_stack)
           /\ function_body_stack' = Front(function_body_stack)]_vars

\* the innermost of three functions has been left: two entries are on each stack
C17_Witness ==
    /\ hook = "leave_FunctionDef"
    /\ Len(frames) = 2
    /\ Len(function_type_info_stack) = 2
    /\ function_body_stack = <<frames[1].node.body, frames[2].node.body>>
    /\ ~is_empty(function_type_info_stack[1])
    /\ is_empty(function_type_info_stack[2])

\* C18: when a hook raises while the subtree of a FunctionDef is traversed, the
\* entries visit_FunctionDef pushed are popped from both stacks and
\* aggressively_strip_type_comments is reset: the codemod is in the state it
\* had before the outermost open FunctionDef was visited.
C18_StateRestoredOnRaise ==
    (frames # <<>> /\ result.kind = "raise") =>
        /\ function_type_info_stack = <<>>
        /\ function_body_stack = <<>>
        /\ ~aggressively_strip_type_comments

-----------------------------------------------------------------------------
(* The parameters of a Lambda (libcst/nodes/tests/test_lambda.py): Param   *)
(* and Parameters as the tests construct them, and the validation that     *)
(* their construction runs.                                                *)

MaxLambdaParams == 2

ParamStar == [k |-> "ParamStar"]
\* cst.Param(cst.Name("bar"), default=default, star=star); a star that is not
\* given is MaybeSentinel.DEFAULT
LambdaParam(default, star) ==
    [k |-> "Param", name |-> Name(<<"bar">>), annotation |-> None, default |-> default,
     star |-> star]
\* cst.Parameters(params=, default_params=, star_arg=, kwonly_params=, star_kwarg=)
LambdaParameters(params, default_params, star_arg, kwonly_params, star_kwarg) ==
    [k |-> "Parameters", params |-> params, default_params |-> default_params,
     star_arg |-> star_arg, kwonly_params |-> kwonly_params, star_kwarg |-> star_kwarg]

\* the error of Param's validation, or None
Param_validate(param) ==
    IF param.star \notin {DEFAULT, "", "*", "**"}
    THEN Some("Must specify either '', '*' or '**' for star.")
    ELSE None

\* some Param of the sequence has a star that is given and is not the expected one
StarMismatch(params, expected) ==
    \E i \in 1..Len(params) :
        params[i].k = "Param" /\ params[i].star \notin {DEFAULT, expected}

HasDefaults(params) == \E i \in 1..Len(params) : ~IsNone(params[i].default)
LacksDefaults(params) == \E i \in 1..Len(params) : IsNone(params[i].default)

\* Parameters' validation without the defaults and the ParamStar
Parameters_validate_stars(parameters) ==
    IF \/ StarMismatch(parameters.params, "")
       \/ StarMismatch(parameters.default_params, "")
       \/ StarMismatch(parameters.kwonly_params, "")
    THEN Some("Expecting a star prefix of ''")
    ELSE IF StarMismatch(parameters.star_arg, "*")
    THEN Some("Expecting a star prefix of '*'")
    ELSE IF StarMismatch(parameters.star_kwarg, "**")
    THEN Some("Expecting a star prefix of '**'")
    ELSE None

\* Parameters' validation without the stars of star_arg and star_kwarg
Parameters_validate_sequences(parameters) ==
    IF HasDefaults(parameters.params)
    THEN Some("Cannot have defaults for params")
    ELSE IF LacksDefaults(parameters.default_params)
    THEN Some("Must have defaults for default_params")
    ELSE IF parameters.star_arg = <<ParamStar>> /\ Len(parameters.kwonly_params) = 0
    THEN Some("Must have at least one kwonly param if ParamStar is used.")
    ELSE IF \/ StarMismatch(parameters.params, "")
            \/ StarMismatch(parameters.default_params, "")
            \/ StarMismatch(parameters.kwonly_params, "")
    THEN Some("Expecting a star prefix of ''")
    ELSE None

\* Parameters' validation that takes a star_kwarg for enough after a ParamStar
Parameters_validate_kwarg_suffices(parameters) ==
    IF HasDefaults(parameters.params)
    THEN Some("Cannot have defaults for params")
    ELSE IF LacksDefaults(parameters.default_params)
    THEN Some("Must have defaults for default_params")
    ELSE IF /\ parameters.star_arg = <<ParamStar>>
            /\ Len(parameters.kwonly_params) = 0
            /\ Len(parameters.star_kwarg) = 0
    THEN Some("Must have at least one kwonly param if ParamStar is used.")
    ELSE IF \/ StarMismatch(parameters.params, "")
            \/ StarMismatch(parameters.default_params, "")
            \/ StarMismatch(parameters.kwonly_params, "")
    THEN Some("Expecting a star prefix of ''")
    ELSE IF StarMismatch(parameters.star_arg, "*")
    THEN Some("Expecting a star prefix of '*'")
    ELSE IF StarMismatch(parameters.star_kwarg, "**")
    THEN Some("Expecting a star prefix of '**'")
    ELSE None

\* the error of Parameters' validation, or None
Parameters_validate(parameters) ==
    IF HasDefaults(parameters.params)
    THEN Some("Cannot have defaults for params")
    ELSE IF LacksDefaults(parameters.default_params)
    THEN Some("Must have defaults for default_params")
    ELSE IF parameters.star_arg = <<ParamStar>> /\ Len(parameters.kwonly_params) = 0
    THEN Some("Must have at least one kwonly param if ParamStar is used.")
    ELSE IF \/ StarMismatch(parameters.params, "")
            \/ StarMismatch(parameters.default_params, "")
            \/ StarMismatch(parameters.kwonly_params, "")
    THEN Some("Expecting a star prefix of ''")
    ELSE IF StarMismatch(parameters.star_arg, "*")
    THEN Some("Expecting a star prefix of '*'")
    ELSE IF StarMismatch(parameters.star_kwarg, "**")
    THEN Some("Expecting a star prefix of '**'")
    ELSE None

\* the construction of the Params, then of the Parameters that holds them: the
\* node, or the first validation error
NewParameters(parameters) ==
    LET all == parameters.params \o parameters.default_params
               \o SelectSeq(parameters.star_arg, LAMBDA p : p.k = "Param")
               \o parameters.kwonly_params \o parameters.star_kwarg
    IN IF \E i \in 1..Len(all) : ~IsNone(Param_validate(all[i]))
       THEN Raise("Must specify either '', '*' or '**' for star.")
       ELSE IF ~IsNone(Parameters_validate(parameters))
       THEN Raise(Get(Parameters_validate(parameters)))
       ELSE Return(parameters)

\* the Params the tests give: with and without a default, with every star
Stars == {DEFAULT, "", "*", "**", "***"}
LambdaParamInputs == {LambdaParam(default, star) : default \in {None, Some(Value)}, star \in Stars}
Collections == {"params", "default_params", "star_arg", "kwonly_params", "star_kwarg"}
\* a parameter and the collection it is given in
Placements ==
    {[collection |-> c, param |-> p] : c \in Collections, p \in LambdaParamInputs}
    \cup {[collection |-> "star_arg", param |-> ParamStar]}
Placed(placements, collection) ==
    LET chosen == SelectSeq(placements, LAMBDA e : e.collection = collection)
    IN [i \in 1..Len(chosen) |-> chosen[i].param]
\* up to MaxLambdaParams parameters, at most one star_arg and one star_kwarg
ParametersInputsOfLambda ==
    {LambdaParameters(Placed(ps, "params"), Placed(ps, "default_params"),
                      Placed(ps, "star_arg"), Placed(ps, "kwonly_params"),
                      Placed(ps, "star_kwarg")) :
        ps \in {qs \in UNION {[1..n -> Placements] : n \in 0..MaxLambdaParams} :
                   /\ Len(Placed(qs, "star_arg")) <= 1
                   /\ Len(Placed(qs, "star_kwarg")) <= 1}}

Call_Parameters ==
    /\ hook = Idle
    /\ \E parameters \in ParametersInputsOfLambda :
          /\ hook' = "Parameters"
          /\ args' = parameters
          /\ result' = NewParameters(parameters)
    /\ UNCHANGED <<codemod_state, frames, pass>>

NextParameters ==
    \/ Call_Parameters
    \/ Continue

SpecParameters == Init /\ [][NextParameters]_vars

\* C19: the construction of a Parameters fails when a parameter of params has
\* a default, and when a parameter of default_params has none.
C19_DefaultsValidated ==
    (/\ hook = "Parameters"
     /\ \/ \E i \in 1..Len(args.params) : ~IsNone(args.params[i].default)
        \/ \E i \in 1..Len(args.default_params) : IsNone(args.default_params[i].default)) =>
        result.kind = "raise"

\* Parameters(default_params=(Param(Name("bar")),)) has been rejected for the
\* missing default
C19_Witness ==
    /\ hook = "Parameters"
    /\ args.params = <<>>
    /\ args.default_params = <<LambdaParam(None, DEFAULT)>>
    /\ result = Raise("Must have defaults for default_params")

\* the star a Param of the collection must have, if it is given
ExpectedStar(collection) ==
    IF collection = "star_arg" THEN "*"
    ELSE IF collection = "star_kwarg" THEN "**"
    ELSE ""

\* C20: the construction of a Parameters fails unless the star of every Param
\* is the one of its collection: '' in params, default_params and
\* kwonly_params, '*' for the Param given as star_arg, '**' for star_kwarg; and
\* a Param whose star is none of '', '*' and '**' is rejected.  A star that is not
\* given takes the one of the collection.
C20_StarsValidated ==
    hook = "Parameters" =>
        \A c \in Collections : \A i \in 1..Len(args[c]) :
            (/\ args[c][i].k = "Param"
             /\ args[c][i].star # DEFAULT
             /\ args[c][i].star # ExpectedStar(c)) =>
                result.kind = "raise"

\* Parameters(star_kwarg=Param(Name("bar"), star="*")) has been rejected
C20_Witness ==
    /\ hook = "Parameters"
    /\ args.star_kwarg = <<LambdaParam(None, "*")>>
    /\ args.params = <<>> /\ args.default_params = <<>>
    /\ args.star_arg = <<>> /\ args.kwonly_params = <<>>
    /\ result = Raise("Expecting a star prefix of '**'")

-----------------------------------------------------------------------------
(* The construction of a Lambda (test_lambda.py) and of a Global           *)
(* (test_global.py): the validation that the construction of the node      *)
(* runs, after the one of its children.                                    *)

\* cst.Param(cst.Name("arg"), annotation=annotation, default=default)
AnnotatedLambdaParam(annotation, default) ==
    [LambdaParam(default, DEFAULT) EXCEPT !.annotation = annotation]
\* cst.Lambda(params, cst.Number(cst.Integer("5")), whitespace_after_lambda=...);
\* whitespace_after_lambda is MaybeSentinel.DEFAULT or the value of a
\* SimpleWhitespace, "" or " "
Lambda(params, whitespace_after_lambda) ==
    [k |-> "Lambda", params |-> params, body |-> Integer(<<"5">>),
     whitespace_after_lambda |-> whitespace_after_lambda]

\* the Params of a Parameters, the ParamStar left out
ParamsOfLambda(parameters) ==
    parameters.params \o parameters.default_params
    \o SelectSeq(parameters.star_arg, LAMBDA p : p.k = "Param")
    \o parameters.kwonly_params \o parameters.star_kwarg

\* Lambda's validation that does not look at the annotations
Lambda_validate_whitespace_only(lambda) ==
    IF Len(ParamsOfLambda(lambda.params)) = 0 THEN None
    ELSE IF lambda.whitespace_after_lambda = ""
    THEN Some("Must have at least one space after lambda when specifying params")
    ELSE None

\* Lambda's validation that does not look at whitespace_after_lambda
Lambda_validate_annotations_only(lambda) ==
    IF Len(ParamsOfLambda(lambda.params)) = 0 THEN None
    ELSE IF \E i \in 1..Len(ParamsOfLambda(lambda.params)) :
               ~IsNone(ParamsOfLambda(lambda.params)[i].annotation)
    THEN Some("Lambda params cannot have type annotations")
    ELSE None

\* the error of Lambda's validation, or None
Lambda_validate(lambda) ==
    IF Len(ParamsOfLambda(lambda.params)) = 0 THEN None
    ELSE IF \E i \in 1..Len(ParamsOfLambda(lambda.params)) :
               ~IsNone(ParamsOfLambda(lambda.params)[i].annotation)
    THEN Some("Lambda params cannot have type annotations")
    ELSE IF lambda.whitespace_after_lambda = ""
    THEN Some("Must have at least one space after lambda when specifying params")
    ELSE None

\* the construction of the Parameters, then of the Lambda that holds it
NewLambda(lambda) ==
    IF NewParameters(lambda.params).kind = "raise" THEN NewParameters(lambda.params)
    ELSE IF ~IsNone(Lambda_validate(lambda)) THEN Raise(Get(Lambda_validate(lambda)))
    ELSE Return(lambda)

\* the Params of the Lambdas: with and without an annotation and a default
LambdaPlacements ==
    {[collection |-> c, param |-> AnnotatedLambdaParam(annotation, default)] :
        c \in Collections,
        annotation \in {None, Some(Annotation(Name(<<"str">>)))},
        default \in {None, Some(Value)}}
    \cup {[collection |-> "star_arg", param |-> ParamStar]}
WhitespaceAfterLambdaInputs == {DEFAULT, "", " "}
\* the names the tests give the parameters of each collection
NamesOfLambda ==
    [params |-> <<"first", "second", "third">>,
     default_params |-> <<"fourth", "fifth", "sixth">>,
     star_arg |-> <<"params">>,
     kwonly_params |-> <<"bar", "baz", "biz">>,
     star_kwarg |-> <<"kwparams">>]
\* cst.Param(cst.Name(name), default=default)
NamedLambdaParam(name, default) ==
    [LambdaParam(default, DEFAULT) EXCEPT !.name = Name(<<name>>)]
\* n Params of a collection, the i-th with a default when defaults[i]
NamedLambdaParams(collection, defaults) ==
    [i \in 1..Len(defaults) |->
        NamedLambdaParam(NamesOfLambda[collection][i],
                         IF defaults[i] THEN Some(Value) ELSE None)]
\* the Lambdas of test_valid: every combination of the five collections, each
\* empty or of up to MaxLambdaParams Params, built without formatting
CombinationInputs ==
    {Lambda(LambdaParameters(NamedLambdaParams("params", [i \in 1..n |-> FALSE]),
                             NamedLambdaParams("default_params", [i \in 1..d |-> TRUE]),
                             star_arg,
                             NamedLambdaParams("kwonly_params", kwonly),
                             NamedLambdaParams("star_kwarg", [i \in 1..kw |-> FALSE])),
            DEFAULT) :
        n \in 0..MaxLambdaParams, d \in 0..MaxLambdaParams,
        star_arg \in {<<>>, <<ParamStar>>,
                      NamedLambdaParams("star_arg", <<FALSE>>)},
        kwonly \in UNION {[1..m -> BOOLEAN] : m \in 0..MaxLambdaParams},
        kw \in 0..1}

LambdaInputs ==
    {Lambda(LambdaParameters(Placed(ps, "params"), Placed(ps, "default_params"),
                             Placed(ps, "star_arg"), Placed(ps, "kwonly_params"),
                             Placed(ps, "star_kwarg")),
            whitespace) :
        ps \in {qs \in UNION {[1..n -> LambdaPlacements] : n \in 0..MaxLambdaParams} :
                   /\ Len(Placed(qs, "star_arg")) <= 1
                   /\ Len(Placed(qs, "star_kwarg")) <= 1},
        whitespace \in WhitespaceAfterLambdaInputs}
    \cup CombinationInputs

(* The code generator of Parameters and Lambda: text is a sequence of      *)
(* tokens, "lambda", "*", "**", "=", ",", ":", " " and the names and       *)
(* values.                                                                 *)

\* the text of a star
Star_codegen(star) == IF star = "" THEN <<>> ELSE <<star>>

\* Param._codegen(state, default_star, default_comma): a star that is not
\* given is the one of the collection, a default is written after " = ", a
\* comma that is not given is ", " where one is needed
Param_codegen(param, default_star, default_comma) ==
    Star_codegen(IF param.star = DEFAULT THEN default_star ELSE param.star)
    \o param.name.value
    \o (IF IsNone(param.default) THEN <<>>
        ELSE <<" ", "=", " ">> \o Get(param.default).value)
    \o (IF default_comma THEN <<",", " ">> ELSE <<>>)

RECURSIVE Params_codegen(_, _, _)
\* the Params of one sequence; more_values: something follows the sequence
Params_codegen(params, default_star, more_values) ==
    IF Len(params) = 0 THEN <<>>
    ELSE Param_codegen(Head(params), default_star, Len(params) > 1 \/ more_values)
         \o Params_codegen(Tail(params), default_star, more_values)

\* Parameters._codegen that writes a star only for a star_arg that is given
Parameters_codegen_without_inferred_star(node) ==
    Params_codegen(node.params, "",
                   \/ Len(node.default_params) > 0
                   \/ Len(node.star_arg) > 0
                   \/ Len(node.kwonly_params) > 0
                   \/ Len(node.star_kwarg) > 0)
    \o Params_codegen(node.default_params, "",
                      \/ Len(node.star_arg) > 0
                      \/ Len(node.kwonly_params) > 0
                      \/ Len(node.star_kwarg) > 0)
    \o (IF Len(node.star_arg) = 0 THEN <<>>
        ELSE IF node.star_arg[1].k = "ParamStar" THEN <<"*", ",", " ">>
        ELSE Param_codegen(node.star_arg[1], "*",
                           Len(node.kwonly_params) > 0 \/ Len(node.star_kwarg) > 0))
    \o Params_codegen(node.kwonly_params, "", Len(node.star_kwarg) > 0)
    \o Params_codegen(node.star_kwarg, "**", FALSE)

\* Parameters._codegen: the five collections in order; a star_arg that is
\* not given is written as "*, " when there are kwonly_params
Parameters_codegen(node) ==
    Params_codegen(node.params, "",
                   \/ Len(node.default_params) > 0
                   \/ Len(node.star_arg) > 0
                   \/ Len(node.kwonly_params) > 0
                   \/ Len(node.star_kwarg) > 0)
    \o Params_codegen(node.default_params, "",
                      \/ Len(node.star_arg) > 0
                      \/ Len(node.kwonly_params) > 0
                      \/ Len(node.star_kwarg) > 0)
    \o (IF Len(node.star_arg) = 0
        THEN (IF Len(node.kwonly_params) > 0 THEN <<"*", ",", " ">> ELSE <<>>)
        ELSE IF node.star_arg[1].k = "ParamStar" THEN <<"*", ",", " ">>
        ELSE Param_codegen(node.star_arg[1], "*",
                           Len(node.kwonly_params) > 0 \/ Len(node.star_kwarg) > 0))
    \o Params_codegen(node.kwonly_params, "", Len(node.star_kwarg) > 0)
    \o Params_codegen(node.star_kwarg, "**", FALSE)

\* Lambda._codegen: a whitespace_after_lambda that is not given is one space
\* when there are parameters
Lambda_codegen(lambda) ==
    <<"lambda">>
    \o (IF lambda.whitespace_after_lambda = DEFAULT
        THEN (IF Len(ParamsOfLambda(lambda.params)) > 0 THEN <<" ">> ELSE <<>>)
        ELSE IF lambda.whitespace_after_lambda = "" THEN <<>>
        ELSE <<lambda.whitespace_after_lambda>>)
    \o Parameters_codegen(lambda.params)
    \o <<":", " ">> \o lambda.body.value

\* the rendering of a Lambda that was constructed
Call_Lambda_codegen ==
    /\ hook = "Lambda"
    /\ result.kind = "node"
    /\ hook' = "Lambda._codegen"
    /\ args' = result.nodes[1]
    /\ result' = Code(Lambda_codegen(result.nodes[1]))
    /\ UNCHANGED <<codemod_state, frames, pass>>

Call_Lambda ==
    /\ hook = Idle
    /\ \E lambda \in LambdaInputs :
          /\ hook' = "Lambda"
          /\ args' = lambda
          /\ result' = NewLambda(lambda)
    /\ UNCHANGED <<codemod_state, frames, pass>>

\* the error of NameItem's validation, or None
NameItem_validate(item) ==
    IF Len(item.name.lpar) > 0 \/ Len(item.name.rpar) > 0
    THEN Some("Cannot have parens around names in NameItem")
    ELSE None

\* Global's validation that does not look at whitespace_after_global
Global_validate_any_whitespace(node) ==
    IF Len(node.names) = 0
    THEN Some("A Global statement must have at least one NameItem")
    ELSE IF node.names[Len(node.names)].comma # DefaultComma
    THEN Some("The last NameItem in a Global cannot have a trailing comma")
    ELSE None

\* Global's validation that does not look at the number of names
Global_validate_any_names(node) ==
    IF Len(node.names) > 0 /\ node.names[Len(node.names)].comma # DefaultComma
    THEN Some("The last NameItem in a Global cannot have a trailing comma")
    ELSE IF node.whitespace_after_global = <<>>
    THEN Some("Must have at least one space after 'global' keyword")
    ELSE None

\* the error of Global's validation, or None
Global_validate(node) ==
    IF Len(node.names) = 0
    THEN Some("A Global statement must have at least one NameItem")
    ELSE IF node.names[Len(node.names)].comma # DefaultComma
    THEN Some("The last NameItem in a Global cannot have a trailing comma")
    ELSE IF node.whitespace_after_global = <<>>
    THEN Some("Must have at least one space after 'global' keyword")
    ELSE None

\* the construction of the NameItems, then of the Global that holds them
NewGlobal(node) ==
    IF \E i \in 1..Len(node.names) : ~IsNone(NameItem_validate(node.names[i]))
    THEN Raise("Cannot have parens around names in NameItem")
    ELSE IF ~IsNone(Global_validate(node)) THEN Raise(Get(Global_validate(node)))
    ELSE Return(node)

\* the NameItems of the tests: a name with or without parentheses, with the
\* default comma or a Comma
NameItemInputs ==
    {NameItem(ParenthesizedName(<<value>>, parens[1], parens[2]), comma) :
        value \in NameTokens,
        parens \in {<<<<>>, <<>>>>, <<<<LeftParen(<<>>)>>, <<RightParen(<<>>)>>>>},
        comma \in {DefaultComma, Comma(<<>>, <<>>), Comma(<<" ">>, <<" ">>)}}
GlobalInputs ==
    {Global(names, whitespace) :
        names \in UNION {[1..n -> NameItemInputs] : n \in 0..MaxNames},
        whitespace \in {<<>>, <<" ">>, <<" ", " ">>}}

Call_Global ==
    /\ hook = Idle
    /\ \E node \in GlobalInputs :
          /\ hook' = "Global"
          /\ args' = node
          /\ result' = NewGlobal(node)
    /\ UNCHANGED <<codemod_state, frames, pass>>

NextConstruction ==
    \/ Call_Lambda
    \/ Call_Lambda_codegen
    \/ Call_Global
    \/ Continue

SpecConstruction == Init /\ [][NextConstruction]_vars

\* C22: the construction of a Lambda fails when a Param of its Parameters, in
\* params, default_params, star_arg, kwonly_params or star_kwarg, has an
\* annotation.
C22_LambdaParamsUnannotated ==
    hook = "Lambda" =>
        \A c \in Collections : \A i \in 1..Len(args.params[c]) :
            (/\ args.params[c][i].k = "Param"
             /\ ~IsNone(args.params[c][i].annotation)) =>
                result.kind = "raise"

\* Lambda(Parameters(star_kwarg=Param(Name("arg"), annotation=Annotation(Name("str")))))
\* has been rejected for the annotation
C22_Witness ==
    /\ hook = "Lambda"
    /\ args.params = LambdaParameters(<<>>, <<>>, <<>>, <<>>,
                         <<AnnotatedLambdaParam(Some(Annotation(Name(<<"str">>))), None)>>)
    /\ args.whitespace_after_lambda = DEFAULT
    /\ result = Raise("Lambda params cannot have type annotations")

\* C23: the construction of a Global whose whitespace_after_global is empty
\* fails, and so does the construction of a Lambda whose
\* whitespace_after_lambda is empty when its Parameters holds a Param in
\* params, default_params, star_arg, kwonly_params or star_kwarg.
C23_KeywordWhitespaceRequired ==
    /\ (hook = "Global" /\ args.whitespace_after_global = <<>>) =>
           result.kind = "raise"
    /\ (/\ hook = "Lambda"
        /\ args.whitespace_after_lambda = ""
        /\ \E c \in Collections : \E i \in 1..Len(args.params[c]) :
              args.params[c][i].k = "Param") =>
           result.kind = "raise"

\* Lambda(Parameters(kwonly_params=(Param(Name("arg")),)),
\* whitespace_after_lambda=SimpleWhitespace("")) has been rejected for the
\* whitespace
C23_Witness ==
    /\ hook = "Lambda"
    /\ args.params = LambdaParameters(<<>>, <<>>, <<>>,
                                      <<AnnotatedLambdaParam(None, None)>>, <<>>)
    /\ args.whitespace_after_lambda = ""
    /\ result = Raise("Must have at least one space after lambda when specifying params")

\* the Global statement of default formatting: one space after the keyword,
\* no parentheses, default commas
DefaultFormatting(node) ==
    /\ node.whitespace_after_global = <<" ">>
    /\ \A i \in 1..Len(node.names) :
          /\ node.names[i].comma = DefaultComma
          /\ node.names[i].name.lpar = <<>>
          /\ node.names[i].name.rpar = <<>>

\* C24: the construction of a Global with no names fails with the error "A
\* Global statement must have at least one NameItem"; with one name or more
\* that error is not raised, and the construction succeeds when nothing else
\* is wrong with the statement.
C24_GlobalNeedsNames ==
    hook = "Global" =>
        /\ Len(args.names) = 0 =>
              result = Raise("A Global statement must have at least one NameItem")
        /\ Len(args.names) > 0 =>
              result # Raise("A Global statement must have at least one NameItem")
        /\ (Len(args.names) > 0 /\ DefaultFormatting(args)) => result = Return(args)

\* Global(()) has been rejected
C24_Witness ==
    /\ hook = "Global"
    /\ args.names = <<>>
    /\ args.whitespace_after_global = <<" ">>
    /\ result = Raise("A Global statement must have at least one NameItem")

\* the text of one parameter: its prefix, its name and its default
ItemText(param, prefix) ==
    prefix \o param.name.value
    \o (IF IsNone(param.default) THEN <<>> ELSE <<" ", "=", " ">> \o Get(param.default).value)
ItemTexts(params, prefix) == [i \in 1..Len(params) |-> ItemText(params[i], prefix)]

RECURSIVE JoinItems(_)
\* the texts separated by ", "
JoinItems(items) ==
    IF Len(items) = 0 THEN <<>>
    ELSE IF Len(items) = 1 THEN items[1]
    ELSE items[1] \o <<",", " ">> \o JoinItems(Tail(items))

\* the parameter list the claim describes
ExpectedParameterList(parameters) ==
    JoinItems(ItemTexts(parameters.params, <<>>)
              \o ItemTexts(parameters.default_params, <<>>)
              \o (IF Len(parameters.star_arg) = 0
                  THEN (IF Len(parameters.kwonly_params) > 0 THEN <<<<"*">>>> ELSE <<>>)
                  ELSE IF parameters.star_arg[1].k = "ParamStar" THEN <<<<"*">>>>
                  ELSE ItemTexts(parameters.star_arg, <<"*">>))
              \o ItemTexts(parameters.kwonly_params, <<>>)
              \o ItemTexts(parameters.star_kwarg, <<"**">>))

\* C25: a valid Parameters built without formatting is rendered as its
\* groups in the order params, default_params, star_arg, kwonly_params,
\* star_kwarg, the parameters separated by ", " with no comma after the
\* last, each default after " = ", and a bare "*" before the kwonly_params
\* when there is no star_arg.
C25_ParametersRendered ==
    (hook = "Lambda._codegen" /\ args.whitespace_after_lambda = DEFAULT) =>
        result.code =
            <<"lambda">>
            \o (IF ExpectedParameterList(args.params) = <<>> THEN <<>> ELSE <<" ">>)
            \o ExpectedParameterList(args.params)
            \o <<":", " ", "5">>

\* `lambda first, fourth = 1, *, bar = 1, baz, **kwparams: 5` has been
\* rendered
C25_Witness ==
    /\ hook = "Lambda._codegen"
    /\ args.params.star_arg = <<>>
    /\ result.code = <<"lambda", " ", "first", ",", " ", "fourth", " ", "=", " ", "1",
                       ",", " ", "*", ",", " ", "bar", " ", "=", " ", "1", ",", " ",
                       "baz", ",", " ", "**", "kwparams", ":", " ", "5">>

-----------------------------------------------------------------------------
(* The Params of a Lambda.  leave_Param is the hook of every Param of the  *)
(* module, the ones of a Lambda included; a Lambda stands in a statement   *)
(* of the module, or inside a FunctionDef: in a decorator, a default or    *)
(* the return annotation (before visit_FunctionDef_body), or in a          *)
(* statement of the body (after it).                                       *)

\* the Param of `lambda a: a` and of `lambda x: x`
ParamsOfLambdaInputs ==
    {Param(Name(<<name>>), None, "", DefaultTrailingWhitespace) : name \in {"a", "x"}}

\* f = lambda a: a as a statement of the module
Visit_module_Lambda ==
    /\ hook = Idle
    /\ frames = <<>>
    /\ \E param \in ParamsOfLambdaInputs :
          /\ hook' = "leave_Param"
          /\ args' = [original_node |-> param, updated_node |-> param, parent |-> "Lambda"]
          /\ result' = leave_Param(param, param)
    /\ UNCHANGED <<codemod_state, frames, pass>>

\* a Lambda inside the FunctionDef that is open
Visit_inner_Lambda ==
    /\ frames # <<>>
    /\ Top.phase \in {"params", "body"}
    /\ \E param \in ParamsOfLambdaInputs :
          /\ hook' = "leave_Param"
          /\ args' = [original_node |-> param, updated_node |-> param, parent |-> "Lambda"]
          /\ result' = leave_Param(param, param)
    /\ UNCHANGED <<codemod_state, frames, pass>>

NextLambda ==
    \/ Visit_module_Lambda
    \/ Visit_inner_Lambda
    \/ Enter_nesting_FunctionDef
    \/ Enter_inner_FunctionDef
    \/ Visit_leading_lines
    \/ Visit_Param
    \/ Enter_FunctionDef_body
    \/ Visit_FunctionDef_body
    \/ Leave_FunctionDef
    \/ Next_statement

SpecLambda == Init /\ [][NextLambda]_vars

\* C26: whenever leave_Param is called for a Param without an annotation,
\* function_type_info_stack is not empty, so leave_Param does not fail with
\* an IndexError; this holds for the Params of a Lambda outside every
\* FunctionDef as well.
C26_LeaveParamHasFunction ==
    (hook = "leave_Param" /\ IsNone(args.updated_node.annotation)) =>
        /\ function_type_info_stack # <<>>
        /\ result.kind # "raise"

\* the Param of a FunctionDef is annotated from the comments of that FunctionDef
C27_FunctionDefParams ==
    (hook = "leave_Param" /\ "parent" \notin DOMAIN args /\ frames # <<>>) =>
        LET own == DictGet(from_cst(Top.node).arguments, args.updated_node.name.value) IN
        result =
            IF ~IsNone(args.updated_node.annotation) \/ IsNone(own)
            THEN Return(args.updated_node)
            ELSE Return([args.updated_node EXCEPT
                            !.annotation = Some(_convert_annotation(Get(own)))])

\* the Param of a Lambda is left as it is
C27_LambdaParams ==
    (hook = "leave_Param" /\ "parent" \in DOMAIN args /\ frames # <<>>) =>
        result = Return(args.updated_node)

\* C27: a Param gets its annotation only from the FunctionTypeInfo of the
\* FunctionDef whose signature it is part of: the Params of a nested function
\* get the types of the nested function's comments, and the Params of a
\* Lambda inside a function get none, even under the name of a typed
\* parameter of that function.
C27_OwnSignatureOnly == C27_FunctionDefParams /\ C27_LambdaParams

\* the whitespace hooks leave the statement's own lines and comment alone
StatementWhitespaceKept(statement) ==
    statement.k = "SimpleStatementLine" =>
        /\ VisitEmptyLines(statement.leading_lines) = statement.leading_lines
        /\ VisitTrailingWhitespace(statement.trailing_whitespace)
               = statement.trailing_whitespace

\* C28: aggressively_strip_type_comments is true only in the header of a
\* FunctionDef whose FunctionTypeInfo is not empty, between its
\* visit_FunctionDef and its visit_FunctionDef_body; it is false while the
\* statements of a body are visited, also after a nested function was left,
\* and outside every FunctionDef, so leave_EmptyLine and
\* leave_TrailingWhitespace keep the comments of the statements of a body.
C28_StripOnlyInHeader ==
    /\ aggressively_strip_type_comments =>
          /\ frames # <<>>
          /\ Top.phase \in {"leading_lines", "params"}
          /\ ~is_empty(from_cst(Top.node))
    /\ (frames # <<>> /\ Top.phase = "body" /\ Top.node.body.k = "IndentedBlock") =>
          \A i \in 1..Len(Top.node.body.body) :
              StatementWhitespaceKept(Top.node.body.body[i])

\* a nested function whose types were applied has been left, and the
\* statements of the enclosing function are visited without stripping
C28_Witness ==
    /\ hook = "leave_FunctionDef"
    /\ Len(frames) = 1
    /\ Top.phase = "body"
    /\ ~is_empty(from_cst(args.original_node))
    /\ ~is_empty(function_type_info_stack[1])
    /\ ~aggressively_strip_type_comments

-----------------------------------------------------------------------------
(* `# type: ignore` comments in the header of a function and at the        *)
(* beginning of its body.                                                  *)

\* `# type: ignore`, `# type: ignore[attr-defined]`, `# type: ignore note`
IgnoreCommentInputs ==
    {IgnoreComment,
     <<"#", "type:", "ignore", "[", "attr-defined", "]">>,
     <<"#", "type:", "ignore", " ", "note">>}

\* def fn(a): with a function-level comment and `# type: ignore` comments
\* before the def, after the parameter, after the colon and before the first
\* statement
IgnoringInputs ==
    {FunctionDef(leading_lines,
                 Parameters(<<>>,
                            <<Param(Name(<<"a">>), None, "",
                                    TrailingWhitespace(<<"  ">>, after_param))>>,
                            None, <<>>, None),
                 None,
                 IndentedBlock(TrailingWhitespace(<<"  ">>, layout[1]),
                               <<SimpleStatementLine(layout[2], <<Expr(DEFAULT)>>,
                                                     DefaultTrailingWhitespace)>>)) :
        leading_lines \in {<<>>} \cup {<<EmptyLine(c)>> : c \in IgnoreCommentInputs},
        after_param \in {None} \cup IgnoreCommentInputs,
        layout \in
            UNION {{<<TypeComment(FuncTypeText(<<"int">>)), <<>>>>,
                    <<TypeComment(FuncTypeText(<<"int">>)), <<EmptyLine(c)>>>>,
                    <<c, <<FunctionCommentLine>>>>,
                    <<None, <<FunctionCommentLine, EmptyLine(c)>>>>,
                    <<None, <<EmptyLine(c), FunctionCommentLine>>>>} :
                      c \in IgnoreCommentInputs}}

Enter_ignoring_FunctionDef ==
    /\ hook = Idle
    /\ frames = <<>>
    /\ \E node \in IgnoringInputs : \E entered \in {visit_FunctionDef(node)} :
          /\ hook' = "visit_FunctionDef"
          /\ args' = [node |-> node]
          /\ result' = NoResult
          /\ aggressively_strip_type_comments' = entered.aggressively_strip_type_comments
          /\ function_type_info_stack' = entered.function_type_info_stack
          /\ function_body_stack' = entered.function_body_stack
          /\ frames' = <<Frame(node)>>
    /\ UNCHANGED pass

NextIgnore ==
    \/ Enter_ignoring_FunctionDef
    \/ Visit_leading_lines
    \/ Visit_Param
    \/ Enter_FunctionDef_body
    \/ Visit_FunctionDef_body
    \/ Leave_FunctionDef
    \/ Next_statement

SpecIgnore == Init /\ [][NextIgnore]_vars

\* a `# type: ignore` comment as Python's tokenizer takes it
IsIgnoreComment(comment) ==
    Len(comment) >= 3 /\ comment[2] = "type:" /\ comment[3] = "ignore"

\* the `# type: ignore` comments among the comments, in order
IgnoreCommentsAmong(comments) == SelectSeq(comments, IsIgnoreComment)

\* the comments of a FunctionDef before the def, after its parameters, after
\* the colon and before the first statement
HeaderComments(node) ==
    [i \in 1..Len(node.leading_lines) |-> node.leading_lines[i].comment]
    \o [i \in 1..Len(AllParams(node.params)) |->
           AllParams(node.params)[i].whitespace_after.comment]
    \o <<node.body.header.comment>>
    \o [i \in 1..Len(node.body.body[1].leading_lines) |->
           node.body.body[1].leading_lines[i].comment]

\* C29: the transform never removes a `# type: ignore` comment, be it bare,
\* followed by text or by error codes in brackets: _is_type_comment is False
\* for each of them, and the function that leave_FunctionDef returns has
\* all of them where they were.
C29_IgnoreCommentsKept ==
    (hook = "leave_FunctionDef" /\ result.kind = "node") =>
        /\ \A i \in 1..Len(HeaderComments(args.original_node)) :
              IsIgnoreComment(HeaderComments(args.original_node)[i]) =>
                  ~_is_type_comment(HeaderComments(args.original_node)[i])
        /\ IgnoreCommentsAmong(HeaderComments(result.nodes[1]))
               = IgnoreCommentsAmong(HeaderComments(args.original_node))

\* the same for the bare comment and the comment followed by text only
C29_PlainIgnoreCommentsKept ==
    (/\ hook = "leave_FunctionDef"
     /\ result.kind = "node"
     /\ \A i \in 1..Len(HeaderComments(args.original_node)) :
           HeaderComments(args.original_node)[i] # <<"#", "type:", "ignore", "[", "attr-defined", "]">>) =>
        /\ \A i \in 1..Len(HeaderComments(args.original_node)) :
              IsIgnoreComment(HeaderComments(args.original_node)[i]) =>
                  ~_is_type_comment(HeaderComments(args.original_node)[i])
        /\ IgnoreCommentsAmong(HeaderComments(result.nodes[1]))
               = IgnoreCommentsAmong(HeaderComments(args.original_node))

\* C30: leave_SimpleStatementLine never raises RuntimeError("Unreachable
\* code."): whenever convert_Assign returns a list, the statements before the
\* Assign on its line and the list are two statements or more.
C30_UnreachableNeverRaised ==
    hook = "leave_SimpleStatementLine" =>
        result # Raise("RuntimeError: Unreachable code.")

\* the same for every Assign that binds a name
C30_BindingAssignNeverRaises ==
    (/\ hook = "leave_SimpleStatementLine"
     /\ LastOf(args.updated_node.body).k = "Assign"
     /\ \E i \in 1..Len(LastOf(args.updated_node.body).targets) :
           Len(Leaves(unpack_target(LastOf(args.updated_node.body).targets[i].target))) > 0) =>
        result # Raise("RuntimeError: Unreachable code.")
====
